---- MODULE Spec2Model ----
(***************************************************************************)
(* A model of the PromptQL latency and accuracy testing suite              *)
(* (hasura/evalset): the trace fetcher's polling loop (getTrace), the      *)
(* RateLimiter, the BatchProcessor, the run of the suite over the          *)
(* questions (runLatencyTests, processQuestion), the resolution of the     *)
(* environments at module load (getEnvironmentConfig,                      *)
(* validateAllEnvironments), the judge client (callPatronusJudge), one     *)
(* run (runQuestionTests, callPromptQL), the results object the suite      *)
(* fills and writes (loadSystemPrompt, processQuestion) and the            *)
(* update-golden tool, as state machines.                                  *)
(***************************************************************************)
EXTENDS Integers, Sequences, FiniteSets, TLC

VARIABLES
    attempt,    \* getTrace: the loop variable of the polling loop
    tpc,        \* getTrace: "query" | "sleep" | "returned" | "threw"
    polls,      \* getTrace: what the tracing backend answered, poll by poll
    sleeps,     \* getTrace: the delays slept so far, in ms, in order
    pending,    \* getTrace: the delay of the sleep in progress (0 when none)
    terr,       \* getTrace: "none" | "exhausted" | "transport"
    tTraceId,   \* getTrace: its argument traceId
    thrown,     \* getTrace: the message of the Error it threw, piece by piece
    requestsPerSecond,  \* RateLimiter.requestsPerSecond
    queue,              \* RateLimiter.queue: the wrappers not yet run
    processing,         \* RateLimiter.processing
    lastRequestTime,    \* RateLimiter.lastRequestTime
    loops,      \* the processQueue invocations suspended at an await
    opState,    \* per operation fn: "idle" | "running" | "resolved" | "rejected"
    promise,    \* per enqueue call: the promise it returned
    starts,     \* the invocations of fn so far: <<operation, Date.now()>>
    submitted,  \* the operations handed to enqueue, in call order
    settles,    \* the operations that settled, in the order they settled
    now,        \* Date.now(), in ms
    numItems,     \* processBatches: the number of items handed in
    batchSize,    \* BatchProcessor.batchSize
    concurrency,  \* BatchProcessor.concurrency
    bpc,          \* processBatches: "idle" | "awaitChunk" | "batchReturn" | "done" | "rejected"
    batchIdx,     \* processBatches: the batch being processed (1-based)
    chunkIdx,     \* processBatch: the chunk being awaited (1-based)
    batchResults, \* processBatch: its results array
    results,      \* processBatches: its results array
    numRuns,      \* NUM_RUNS = argv.runs
    numBatches,   \* argv["num-batches"]
    numEnvs,      \* envConfigs.length
    batchDelay,   \* argv["batch-delay"], in seconds
    pq,           \* per question: where its processQuestion call stands
    writes,       \* per environment and question: assignments to its results key
    requested,    \* startup: the environments named by --env, as written
    procEnv,      \* startup: the variables of process.env that are set, and the
                  \* system prompt files that exist
    ddnUrl,       \* startup: the value the DDN_URL_* variables carry when set
    spc,          \* startup: "args" | "resolve" | "validate" | "ready" | "threw"
    argvEnv,      \* startup: argv.env
    envConfigs,   \* startup: envConfigs
    startupError, \* startup: the error the module load ended with
    jBaseUrl,     \* callPatronusJudge: envConfig.config.PATRONUS_BASE_URL is set
    jAttempt,     \* callPatronusJudge: the loop variable attempt
    jpc,          \* callPatronusJudge: "request" | "sleep" | "returned"
    jLog,         \* callPatronusJudge: what each attempt met, in order
    jWaits,       \* callPatronusJudge: the waits between attempts, in ms
    jResult,      \* callPatronusJudge: what the call came to
    skipAccuracy, \* argv["skip-accuracy"]
    run,          \* one call of runQuestionTests: its locals and callPromptQL's
    readable,     \* the system prompt files fs.readFileSync can read
    questions,    \* questions: the texts of the selected questions, in order
    tests,        \* runLatencyTests: its results object and its processQuestion
                  \* calls, for a suite whose questions all start at once
    golden        \* update-golden: evalset.csv, the questions in memory, the
                  \* responses gathered and the dialogue with the user

traceVars == <<attempt, tpc, polls, sleeps, pending, terr, tTraceId, thrown>>

limiterVars == <<requestsPerSecond, queue, processing, lastRequestTime, loops,
                 opState, promise, starts, submitted, settles, now>>

batchVars == <<numItems, batchSize, concurrency, bpc, batchIdx, chunkIdx,
               batchResults, results>>

vars == <<attempt, tpc, polls, sleeps, pending, terr, tTraceId, thrown,
          requestsPerSecond, queue, processing, lastRequestTime, loops,
          opState, promise, starts, submitted, settles, now,
          numItems, batchSize, concurrency, bpc, batchIdx, chunkIdx,
          batchResults, results,
          numRuns, numBatches, numEnvs, batchDelay, pq, writes,
          requested, procEnv, ddnUrl, spc, argvEnv, envConfigs, startupError,
          jBaseUrl, jAttempt, jpc, jLog, jWaits, jResult, skipAccuracy, run,
          readable, questions, tests, golden>>

suiteVars == <<numRuns, numBatches, numEnvs, batchDelay, pq, writes>>

startupVars == <<requested, procEnv, ddnUrl, spc, argvEnv, envConfigs,
                 startupError>>

\* What the steps of one component leave alone
judgeVars == <<jBaseUrl, jAttempt, jpc, jLog, jWaits, jResult>>

runVars == <<skipAccuracy, run>>

testsVars == <<readable, questions, tests>>

otherVars == <<startupVars, judgeVars, runVars, testsVars, golden>>
notStartup == <<traceVars, limiterVars, batchVars, suiteVars, judgeVars, runVars,
                testsVars, golden>>
notJudge == <<traceVars, limiterVars, batchVars, suiteVars, startupVars, runVars,
              testsVars, golden>>
notRun == <<traceVars, limiterVars, batchVars, suiteVars, startupVars, judgeVars,
            testsVars, golden>>
notTests == <<traceVars, limiterVars, batchVars, suiteVars, startupVars, judgeVars,
              runVars, golden>>
notGolden == <<traceVars, limiterVars, batchVars, suiteVars, startupVars, judgeVars,
               runVars, testsVars>>
notTrace == <<limiterVars, batchVars, suiteVars, otherVars>>
notLimiter == <<traceVars, batchVars, suiteVars, otherVars>>
notBatch == <<traceVars, suiteVars, otherVars>>
notSuite == <<traceVars, batchVars, otherVars>>

Min(a, b) == IF a <= b THEN a ELSE b
Max(a, b) == IF a >= b THEN a ELSE b

RECURSIVE SumSeq(_)
SumSeq(s) == IF s = <<>> THEN 0 ELSE Head(s) + SumSeq(Tail(s))

\* A value that may be null is a sequence: <<>> for null, <<v>> for the value v
Null == <<>>
Some(v) == <<v>>

(***************************************************************************)
(* getTrace: bounded polling with exponential backoff                      *)
(***************************************************************************)
maxRetries == 10
baseDelay == 1000
maxDelay == 30000

\* What one query to the tracing backend can come back with:
\*   "root"    spans, one of them named POST:/query
\*   "noroot"  spans, none named POST:/query
\*   "empty"   otel_traces is an empty list
\*   "nolist"  otel_traces is null or absent
\*   "error"   the request rejects, or the body has no data object
Responses == {"root", "noroot", "empty", "nolist", "error"}

\* traces && traces.length > 0
HasSpans(r) == r \in {"root", "noroot"}

\* traces.find((t) => t.SpanName === "POST:/query")
HasQuerySpan(r) == r = "root"

BackoffDelayNoCap(a) == (2 ^ (a - 1)) * baseDelay

\* Math.min(Math.pow(2, attempt - 1) * baseDelay, maxDelay)
BackoffDelay(a) == Min((2 ^ (a - 1)) * baseDelay, maxDelay)

ShouldSleepInclusive(a) == a <= maxRetries

\* if (attempt < maxRetries): both sleep sites are guarded by it
ShouldSleep(a) == a < maxRetries

SleepsAfterNoContinue(r, a) ==
    LET inner == IF HasSpans(r) /\ ShouldSleep(a) THEN <<BackoffDelay(a)>> ELSE <<>>
        outer == IF ShouldSleep(a) THEN <<BackoffDelay(a)>> ELSE <<>>
    IN inner \o outer
\* The sleeps that follow attempt a when its response r has no POST:/query
\* span: the sleep in the spans-but-no-root branch, which ends with continue,
\* and the sleep at the end of the loop body
SleepsAfter(r, a) ==
    LET inner == IF HasSpans(r) /\ ShouldSleep(a) THEN <<BackoffDelay(a)>> ELSE <<>>
        outer == IF inner = <<>> /\ ShouldSleep(a) THEN <<BackoffDelay(a)>> ELSE <<>>
    IN inner \o outer

\* The trace ids getTrace is called with
TraceIds == {"4bf92f35", "00f067aa"}

ExhaustedErrorNoId(id) ==
    <<"No traces found with POST:/query span after maximum retries for trace ID: ">>
\* new Error("No traces found ... for trace ID: " + traceId)
ExhaustedError(id) ==
    <<"No traces found with POST:/query span after maximum retries for trace ID: ",
      id>>

\* The error of a failed request, or of reading the span list of a body that
\* has no data object
TransportError == <<"Request failed">>

\* getTrace has not been called for a trace that matters here
TraceIdle ==
    /\ attempt = 1
    /\ tpc = "query"
    /\ polls = <<>>
    /\ sleeps = <<>>
    /\ pending = 0
    /\ terr = "none"
    /\ tTraceId = "4bf92f35"
    /\ thrown = <<>>

TraceInit ==
    /\ attempt = 1
    /\ tpc = "query"
    /\ polls = <<>>
    /\ sleeps = <<>>
    /\ pending = 0
    /\ terr = "none"
    /\ tTraceId \in TraceIds
    /\ thrown = <<>>

\* The response to the query of the current attempt arrives, and the loop body
\* runs up to its next await (a sleep), its return or its throw.
TraceRespond(r) ==
    /\ tpc = "query"
    /\ polls' = Append(polls, r)
    /\ UNCHANGED <<attempt, sleeps, tTraceId>>
    /\ UNCHANGED notTrace
    /\ IF r = "error"
       THEN /\ tpc' = "threw"
            /\ terr' = "transport"
            /\ thrown' = TransportError
            /\ pending' = 0
       ELSE IF HasSpans(r) /\ HasQuerySpan(r)
       THEN /\ tpc' = "returned"
            /\ UNCHANGED <<terr, pending, thrown>>
       ELSE IF SleepsAfter(r, attempt) # <<>>
       THEN \* the sleep in the spans-but-no-root branch (then continue), or
            \* the sleep at the end of the loop body
            /\ tpc' = "sleep"
            /\ pending' = SumSeq(SleepsAfter(r, attempt))
            /\ UNCHANGED <<terr, thrown>>
       ELSE \* attempt = maxRetries: the loop ends and the function throws
            /\ tpc' = "threw"
            /\ terr' = "exhausted"
            /\ thrown' = ExhaustedError(tTraceId)
            /\ pending' = 0

\* The backoff timer fires: the next iteration issues its query.
TraceWake ==
    /\ tpc = "sleep"
    /\ sleeps' = sleeps \o SleepsAfter(polls[Len(polls)], attempt)
    /\ pending' = 0
    /\ attempt' = attempt + 1
    /\ tpc' = "query"
    /\ UNCHANGED <<polls, terr, tTraceId, thrown>>
    /\ UNCHANGED notTrace

TraceNext ==
    \/ \E r \in Responses : TraceRespond(r)
    \/ TraceWake

(***************************************************************************)
(* RateLimiter                                                             *)
(***************************************************************************)
MaxOps == 3
Ops == 1..MaxOps

\* Date.now() when the program starts, in ms (any value of at least one second:
\* the first operation never waits, lastRequestTime being 0)
Epoch == 5000
\* Date.now() advances in these steps, up to Epoch + MaxElapsed
MaxElapsed == 500
TimeSteps == {250}
Rates == {0 - 1, 0, 2, 3}
MsPerSecond == 1000

\* The limiter, the operations and the promises, as one value the code's
\* synchronous steps transform.
Cur == [queue |-> queue, processing |-> processing,
        lastRequestTime |-> lastRequestTime, loops |-> loops,
        opState |-> opState, promise |-> promise, starts |-> starts,
        settles |-> settles]

Install(S) ==
    /\ queue' = S.queue
    /\ processing' = S.processing
    /\ lastRequestTime' = S.lastRequestTime
    /\ loops' = S.loops
    /\ opState' = S.opState
    /\ promise' = S.promise
    /\ starts' = S.starts
    /\ settles' = S.settles

RemoveAt(s, i) == [j \in 1..(Len(s) - 1) |-> IF j < i THEN s[j] ELSE s[j + 1]]

\* fn() is invoked: the operation starts at time t
Invoke(S, o, t) ==
    [S EXCEPT !.opState[o] = "running",
              !.starts = Append(S.starts, <<o, t>>)]

\* timeSinceLastRequest < minInterval, with minInterval = 1000 / rps
MustWait(timeSince, rps) == timeSince * rps < MsPerSecond

\* setTimeout(resolve, minInterval - timeSinceLastRequest): the runtime
\* truncates a fractional delay to whole milliseconds and raises a delay below
\* 1 to 1; the delay here is (1000 - timeSince * rps) / rps
TimerDelay(timeSince, rps) ==
    Max(1, (MsPerSecond - timeSince * rps) \div rps)

\* const next = this.queue.shift(); if (next) { this.lastRequestTime =
\* Date.now(); await next(); } and, with nothing to shift, the call of
\* processQueue that finds the queue empty
RunNextLifo(S, t) ==
    IF S.queue = <<>>
    THEN [S EXCEPT !.processing = FALSE]
    ELSE LET next == S.queue[Len(S.queue)]
             S1 == [S EXCEPT !.queue = SubSeq(S.queue, 1, Len(S.queue) - 1),
                             !.lastRequestTime = t,
                             !.loops = Append(S.loops,
                                 [pc |-> "awaitNext", w |-> next, wakeAt |-> 0,
                                  outcome |-> "pending"])]
         IN Invoke(S1, next.fn, t)
RunNext(S, t) ==
    IF S.queue = <<>>
    THEN [S EXCEPT !.processing = FALSE]
    ELSE LET next == Head(S.queue)
             S1 == [S EXCEPT !.queue = Tail(S.queue),
                             !.lastRequestTime = t,
                             !.loops = Append(S.loops,
                                 [pc |-> "awaitNext", w |-> next, wakeAt |-> 0,
                                  outcome |-> "pending"])]
         IN Invoke(S1, next.fn, t)

ProcessQueueNoAwait(S, t) ==
    IF S.queue = <<>>
    THEN [S EXCEPT !.processing = FALSE]
    ELSE LET S1 == [S EXCEPT !.processing = TRUE]
             timeSinceLastRequest == t - S.lastRequestTime
         IN IF MustWait(timeSinceLastRequest, requestsPerSecond)
            THEN [S1 EXCEPT !.loops = Append(S1.loops,
                     [pc |-> "timer", w |-> [fn |-> 0, promise |-> 0],
                      wakeAt |-> t + TimerDelay(timeSinceLastRequest,
                                                requestsPerSecond),
                      outcome |-> "pending"])]
            ELSE LET S2 == RunNext(S1, t)
                 IN IF S2.queue = <<>> THEN S2 ELSE RunNext(S2, t)
\* processQueue up to its first await, called at time t
ProcessQueue(S, t) ==
    IF S.queue = <<>>
    THEN [S EXCEPT !.processing = FALSE]
    ELSE LET S1 == [S EXCEPT !.processing = TRUE]
             timeSinceLastRequest == t - S.lastRequestTime
         IN IF MustWait(timeSinceLastRequest, requestsPerSecond)
            THEN [S1 EXCEPT !.loops = Append(S1.loops,
                     [pc |-> "timer", w |-> [fn |-> 0, promise |-> 0],
                      wakeAt |-> t + TimerDelay(timeSinceLastRequest,
                                                requestsPerSecond),
                      outcome |-> "pending"])]
            ELSE RunNext(S1, t)

\* if (this.requestsPerSecond <= 0) return fn();
Bypass(rps) == rps <= 0

\* return fn(): the operation starts at once and the promise is fn's own
BypassCallStamped(S, o, t) ==
    Invoke([S EXCEPT !.promise[o] = [state |-> "pending", from |-> 0],
                     !.lastRequestTime = t], o, t)
BypassCall(S, o, t) ==
    Invoke([S EXCEPT !.promise[o] = [state |-> "pending", from |-> 0]], o, t)

EnqueueAlwaysStarts(S, o, t) ==
    IF Bypass(requestsPerSecond)
    THEN BypassCall(S, o, t)
    ELSE ProcessQueue([S EXCEPT !.promise[o] = [state |-> "pending", from |-> 0],
                                !.queue = Append(S.queue, [fn |-> o, promise |-> o])],
                      t)
\* enqueue(fn) for operation o at time t: the whole call is synchronous
Enqueue(S, o, t) ==
    IF Bypass(requestsPerSecond)
    THEN BypassCall(S, o, t)
    ELSE LET S1 == [S EXCEPT !.promise[o] = [state |-> "pending", from |-> 0],
                             !.queue = Append(S.queue, [fn |-> o, promise |-> o])]
         IN IF ~S1.processing THEN ProcessQueue(S1, t) ELSE S1

\* The wrapper enqueue puts in the queue: try { resolve(await fn()) } catch
\* (error) { reject(error) }. What it does to the caller's promise and how its
\* own promise settles, given how fn settled.
WrapperNoCatch(outcome) ==
    [caller |-> IF outcome = "resolved" THEN "resolved" ELSE "pending",
     self |-> outcome]
Wrapper(outcome) == [caller |-> outcome, self |-> "resolved"]

\* The loops awaiting operation o
AwaitingLoops(S, o) ==
    {i \in 1..Len(S.loops) : S.loops[i].pc = "awaitNext" /\ S.loops[i].w.fn = o}

\* fn of operation o settles; a wrapper awaiting it settles the promise of its
\* enqueue call; in the bypass the promise enqueue returned is fn's own
Settle(S, o, outcome) ==
    LET S1 == [S EXCEPT !.opState[o] = outcome,
                        !.settles = Append(S.settles, o)]
        aw == AwaitingLoops(S, o)
    IN IF aw = {}
       THEN [S1 EXCEPT !.promise[o] = [state |-> outcome, from |-> o]]
       ELSE [S1 EXCEPT
               !.promise = [p \in Ops |->
                   IF \E i \in aw : S.loops[i].w.promise = p
                                    /\ Wrapper(outcome).caller # "pending"
                   THEN [state |-> Wrapper(outcome).caller, from |-> o]
                   ELSE S.promise[p]],
               !.loops = [i \in 1..Len(S.loops) |->
                   IF i \in aw
                   THEN [S.loops[i] EXCEPT !.outcome = Wrapper(outcome).self]
                   ELSE S.loops[i]]]

\* await next() returns in loop i: this.processQueue(); when the wrapper
\* rejected, the await throws instead and this invocation ends there
Resume(S, i, t) ==
    LET S1 == [S EXCEPT !.loops = RemoveAt(S.loops, i)]
    IN IF S.loops[i].outcome = "rejected" THEN S1 ELSE ProcessQueue(S1, t)

\* the timer of loop i fires at time t
TimerFired(S, i, t) == RunNext([S EXCEPT !.loops = RemoveAt(S.loops, i)], t)

LimiterIdle ==
    /\ requestsPerSecond = 0
    /\ queue = <<>>
    /\ processing = FALSE
    /\ lastRequestTime = 0
    /\ loops = <<>>
    /\ opState = [o \in Ops |-> "idle"]
    /\ promise = [o \in Ops |-> [state |-> "none", from |-> 0]]
    /\ starts = <<>>
    /\ submitted = <<>>
    /\ settles = <<>>
    /\ now = Epoch

LimiterInit ==
    /\ requestsPerSecond \in Rates
    /\ queue = <<>>
    /\ processing = FALSE
    /\ lastRequestTime = 0
    /\ loops = <<>>
    /\ opState = [o \in Ops |-> "idle"]
    /\ promise = [o \in Ops |-> [state |-> "none", from |-> 0]]
    /\ starts = <<>>
    /\ submitted = <<>>
    /\ settles = <<>>
    /\ now = Epoch

\* A caller hands the next operation to enqueue.
RLEnqueue ==
    /\ Len(submitted) < MaxOps
    /\ LET o == Len(submitted) + 1
       IN /\ Install(Enqueue(Cur, o, now))
          /\ submitted' = Append(submitted, o)
    /\ UNCHANGED <<requestsPerSecond, now>>
    /\ UNCHANGED notLimiter

\* A running operation resolves or rejects.
RLSettle(o, outcome) ==
    /\ opState[o] = "running"
    /\ Install(Settle(Cur, o, outcome))
    /\ UNCHANGED <<requestsPerSecond, now, submitted>>
    /\ UNCHANGED notLimiter

\* The drain loop continues after the operation it awaited.
RLResume(i) ==
    /\ loops[i].pc = "awaitNext"
    /\ loops[i].outcome # "pending"
    /\ Install(Resume(Cur, i, now))
    /\ UNCHANGED <<requestsPerSecond, now, submitted>>
    /\ UNCHANGED notLimiter

\* The drain loop's timer fires, at its due time or later.
RLTimerFire(i) ==
    /\ loops[i].pc = "timer"
    /\ now' = Max(now, loops[i].wakeAt)
    /\ Install(TimerFired(Cur, i, now'))
    /\ UNCHANGED <<requestsPerSecond, submitted>>
    /\ UNCHANGED notLimiter

\* Time passes.
AdvanceTime(d) ==
    /\ now + d <= Epoch + MaxElapsed
    /\ now' = now + d
    /\ UNCHANGED <<requestsPerSecond, queue, processing, lastRequestTime, loops,
                   opState, promise, starts, submitted, settles>>
    /\ UNCHANGED notLimiter

LimiterNext ==
    \/ RLEnqueue
    \/ \E o \in Ops, outcome \in {"resolved", "rejected"} : RLSettle(o, outcome)
    \/ \E i \in 1..Len(loops) : RLResume(i)
    \/ \E i \in 1..Len(loops) : RLTimerFire(i)
    \/ \E d \in TimeSteps : AdvanceTime(d)

(***************************************************************************)
(* BatchProcessor                                                          *)
(***************************************************************************)
\* batchSize and concurrency range over 1..MaxOps+1, so that either can exceed
\* the number of items
Sizes == 1..(MaxOps + 1)

Items == [i \in 1..numItems |-> i]

\* for (let i = 0; i < items.length; i += size) out.push(items.slice(i, i + size))
Slices(s, size) ==
    [k \in 1..((Len(s) + size - 1) \div size) |->
        SubSeq(s, (k - 1) * size + 1, Min(k * size, Len(s)))]

CreateBatches(items) == Slices(items, batchSize)

CreateChunksWhole(batch) == <<batch>>
CreateChunks(batch) == Slices(batch, concurrency)

Batches == CreateBatches(Items)
Chunks(b) == CreateChunks(Batches[b])

\* chunk.map((item) => this.rateLimiter.enqueue(() => processor(item))): the
\* calls of enqueue, in the order of the chunk, at time t
RECURSIVE EnqueueAll(_, _, _)
EnqueueAll(S, chunk, t) ==
    IF chunk = <<>> THEN S
    ELSE EnqueueAll(Enqueue(S, Head(chunk), t), Tail(chunk), t)

\* Promise.all(promises) fulfils once every promise of the chunk has
ChunkAnyResolved(S, chunk) ==
    \E k \in 1..Len(chunk) : S.promise[chunk[k]].state = "resolved"
ChunkAllResolved(S, chunk) ==
    \A k \in 1..Len(chunk) : S.promise[chunk[k]].state = "resolved"

\* Promise.all(promises) rejects as soon as one promise of the chunk does
ChunkRejected(S, chunk) ==
    \E k \in 1..Len(chunk) : S.promise[chunk[k]].state = "rejected"

\* the array Promise.all fulfils with: the value of each promise, in the order
\* of the chunk (a value is named by the operation that produced it)
ChunkResultsBySettle(S, chunk) ==
    SelectSeq(S.settles, LAMBDA o : \E k \in 1..Len(chunk) : chunk[k] = o)
ChunkResults(S, chunk) == [k \in 1..Len(chunk) |-> S.promise[chunk[k]].from]

BatchIdle ==
    /\ numItems = 0
    /\ batchSize = 1
    /\ concurrency = 1
    /\ bpc = "idle"
    /\ batchIdx = 0
    /\ chunkIdx = 0
    /\ batchResults = <<>>
    /\ results = <<>>

BatchInit ==
    /\ numItems \in 0..MaxOps
    /\ batchSize \in Sizes
    /\ concurrency \in Sizes
    /\ bpc = "idle"
    /\ batchIdx = 0
    /\ chunkIdx = 0
    /\ batchResults = <<>>
    /\ results = <<>>

\* processBatch(batch b) up to its first await: the first chunk is handed to
\* the limiter
StartBatch(b) ==
    /\ batchIdx' = b
    /\ chunkIdx' = 1
    /\ batchResults' = <<>>
    /\ Install(EnqueueAll(Cur, Chunks(b)[1], now))
    /\ submitted' = submitted \o Chunks(b)[1]
    /\ bpc' = "awaitChunk"

\* processBatches(items, processor) is called.
BPStart ==
    /\ bpc = "idle"
    /\ results' = <<>>
    /\ IF Len(Batches) = 0
       THEN /\ bpc' = "done"
            /\ UNCHANGED <<batchIdx, chunkIdx, batchResults, queue, processing,
                           lastRequestTime, loops, opState, promise, starts,
                           settles, submitted>>
       ELSE StartBatch(1)
    /\ UNCHANGED <<numItems, batchSize, concurrency, requestsPerSecond, now>>
    /\ UNCHANGED notBatch

\* Promise.all of the awaited chunk fulfils: its results are pushed and the next
\* chunk of the batch is handed to the limiter, or processBatch returns.
BPChunkResolved ==
    /\ bpc = "awaitChunk"
    /\ ChunkAllResolved(Cur, Chunks(batchIdx)[chunkIdx])
    /\ batchResults' = batchResults \o ChunkResults(Cur, Chunks(batchIdx)[chunkIdx])
    /\ IF chunkIdx < Len(Chunks(batchIdx))
       THEN /\ chunkIdx' = chunkIdx + 1
            /\ Install(EnqueueAll(Cur, Chunks(batchIdx)[chunkIdx + 1], now))
            /\ submitted' = submitted \o Chunks(batchIdx)[chunkIdx + 1]
            /\ UNCHANGED bpc
       ELSE /\ bpc' = "batchReturn"
            /\ UNCHANGED <<chunkIdx, queue, processing, lastRequestTime, loops,
                           opState, promise, starts, settles, submitted>>
    /\ UNCHANGED <<numItems, batchSize, concurrency, batchIdx, results,
                   requestsPerSecond, now>>
    /\ UNCHANGED notBatch

BPChunkRejectedGoesOn ==
    /\ bpc = "awaitChunk"
    /\ ChunkRejected(Cur, Chunks(batchIdx)[chunkIdx])
    /\ bpc' = IF chunkIdx < Len(Chunks(batchIdx)) \/ batchIdx < Len(Batches)
              THEN "batchReturn" ELSE "rejected"
    /\ UNCHANGED <<numItems, batchSize, concurrency, batchIdx, chunkIdx,
                   batchResults, results>>
    /\ UNCHANGED limiterVars
    /\ UNCHANGED notBatch
\* Promise.all of the awaited chunk rejects: processBatch and processBatches
\* reject with it.
BPChunkRejected ==
    /\ bpc = "awaitChunk"
    /\ ChunkRejected(Cur, Chunks(batchIdx)[chunkIdx])
    /\ bpc' = "rejected"
    /\ UNCHANGED <<numItems, batchSize, concurrency, batchIdx, chunkIdx,
                   batchResults, results>>
    /\ UNCHANGED limiterVars
    /\ UNCHANGED notBatch

\* processBatch has returned: results.push(...batchResults), then the next
\* batch, or the return of processBatches.
BPBatchReturn ==
    /\ bpc = "batchReturn"
    /\ results' = results \o batchResults
    /\ IF batchIdx < Len(Batches)
       THEN StartBatch(batchIdx + 1)
       ELSE /\ bpc' = "done"
            /\ UNCHANGED <<batchIdx, chunkIdx, batchResults, queue, processing,
                           lastRequestTime, loops, opState, promise, starts,
                           settles, submitted>>
    /\ UNCHANGED <<numItems, batchSize, concurrency, requestsPerSecond, now>>
    /\ UNCHANGED notBatch

BatchNext ==
    \/ BPStart
    \/ BPChunkResolved
    \/ BPChunkRejected
    \/ BPBatchReturn
    \/ \E o \in Ops, outcome \in {"resolved", "rejected"} : RLSettle(o, outcome)
    \/ \E i \in 1..Len(loops) : RLResume(i)
    \/ \E i \in 1..Len(loops) : RLTimerFire(i)
    \/ \E d \in TimeSteps : AdvanceTime(d)

(***************************************************************************)
(* runLatencyTests: processQuestion as the processor of the BatchProcessor *)
(***************************************************************************)
MaxRuns == 2
RunCounts == 1..MaxRuns
BatchCounts == {1, 2}
EnvCounts == {1, 2}
DelaySeconds == {0, 1}
QuestionCounts == {1, 2}
SuiteSizes == {1, 2}
SuiteRates == {0, 2}
Envs == 1..2

\* Where one run (runQuestionTests -> callPromptQL) stands:
\*   "qa"      the request to the QA backend is in flight
\*   "trace"   getTrace is polling the tracing backend
\*   "judge2"  evaluateAccuracy: both judge calls are in flight
\*   "judge1"  evaluateAccuracy: one judge call has returned, one is in flight
\*   "done"    runQuestionTests has returned (a record or null)
NextPhases(phase) ==
    CASE phase = "qa" -> {"trace", "done"}
      [] phase = "trace" -> {"judge2", "done"}
      [] phase = "judge2" -> {"judge1"}
      [] phase = "judge1" -> {"done"}
      [] OTHER -> {}

\* The outbound requests a run in this phase can have in flight
RequestsOf(phase) ==
    CASE phase = "qa" -> 1
      [] phase = "trace" -> 1
      [] phase = "judge2" -> 2
      [] phase = "judge1" -> 1
      [] OTHER -> 0

\* Promise.all(Array.from({ length: NUM_RUNS }, (_, j) => runQuestionTests(...))):
\* every run of the batch is started in the same step
StartRuns(n) == [r \in 1..n |-> "qa"]

\* processQuestion as called: first environment, first batch of runs started
\* (waits: the delays between batches of runs waited out so far for the
\* environment at hand, in ms)
FreshQuestion(n) ==
    [env |-> 1, batch |-> 0, pc |-> "runs", runs |-> StartRuns(n), allRuns |-> 0,
     waits |-> <<>>]

ShouldDelayAfterEvery(batch) == batchDelay > 0

\* if (batch < argv["num-batches"] - 1 && argv["batch-delay"] > 0)
ShouldDelay(batch) == batch < numBatches - 1 /\ batchDelay > 0

\* setTimeout(resolve, argv["batch-delay"] * 1000)
BatchDelayMs == batchDelay * 1000

SuiteIdle ==
    /\ numRuns = 1
    /\ numBatches = 1
    /\ numEnvs = 1
    /\ batchDelay = 0
    /\ pq = [o \in Ops |-> FreshQuestion(1)]
    /\ writes = [k \in Envs \X Ops |-> 0]

SuiteInit ==
    /\ numRuns \in RunCounts
    /\ numBatches \in BatchCounts
    /\ numEnvs \in EnvCounts
    /\ batchDelay \in DelaySeconds
    /\ pq = [o \in Ops |-> FreshQuestion(numRuns)]
    /\ writes = [k \in Envs \X Ops |-> 0]

\* One run of question o moves on: a response arrives and the run issues its
\* next requests, or returns.
RunStep(o, r) ==
    /\ opState[o] = "running"
    /\ pq[o].pc = "runs"
    /\ \E next \in NextPhases(pq[o].runs[r]) :
          pq' = [pq EXCEPT ![o].runs[r] = next]
    /\ UNCHANGED <<numRuns, numBatches, numEnvs, batchDelay, writes>>
    /\ UNCHANGED <<limiterVars, notSuite>>

\* The body of the loop over the batches of runs is over for question o, whose
\* call stands at q: batch++ and the next batch of runs; after the last batch
\* the write of the results key, and the next environment or the return of
\* processQuestion.
PQContinue(o, q) ==
    IF q.batch + 1 < numBatches
    THEN /\ pq' = [pq EXCEPT ![o] = [q EXCEPT !.pc = "runs",
                                              !.batch = @ + 1,
                                              !.runs = StartRuns(numRuns)]]
         /\ UNCHANGED <<writes, limiterVars>>
    ELSE /\ writes' = [writes EXCEPT ![<<q.env, o>>] = @ + 1]
         /\ IF q.env < numEnvs
            THEN /\ pq' = [pq EXCEPT ![o] = [q EXCEPT !.pc = "runs",
                                                      !.env = @ + 1,
                                                      !.batch = 0,
                                                      !.allRuns = 0,
                                                      !.waits = <<>>,
                                                      !.runs = StartRuns(numRuns)]]
                 /\ UNCHANGED limiterVars
            ELSE /\ pq' = [pq EXCEPT ![o] = [q EXCEPT !.pc = "returned"]]
                 /\ Install(Settle(Cur, o, "resolved"))
                 /\ UNCHANGED <<requestsPerSecond, submitted, now>>

\* Promise.all of the batch of runs fulfils: allRuns.push(...runs); then the
\* delay between batches, or the rest of the loop at once.
PQBatchDone(o) ==
    /\ opState[o] = "running"
    /\ pq[o].pc = "runs"
    /\ \A r \in 1..numRuns : pq[o].runs[r] = "done"
    /\ LET q == [pq[o] EXCEPT !.allRuns = @ + numRuns]
       IN IF ShouldDelay(q.batch)
          THEN /\ pq' = [pq EXCEPT ![o] = [q EXCEPT !.pc = "delay"]]
               /\ UNCHANGED <<writes, limiterVars>>
          ELSE PQContinue(o, q)
    /\ UNCHANGED <<numRuns, numBatches, numEnvs, batchDelay>>
    /\ UNCHANGED notSuite

\* The timer of the delay between two batches of runs fires.
PQDelayDone(o) ==
    /\ opState[o] = "running"
    /\ pq[o].pc = "delay"
    /\ PQContinue(o, [pq[o] EXCEPT !.waits = Append(@, BatchDelayMs)])
    /\ UNCHANGED <<numRuns, numBatches, numEnvs, batchDelay>>
    /\ UNCHANGED notSuite

\* Time advances here only to the due time of the limiter's timer: how long a
\* request takes does not bear on how many are in flight.
SuiteNext ==
    \/ BPStart
    \/ BPChunkResolved
    \/ BPBatchReturn
    \/ \E o \in Ops, r \in 1..numRuns : RunStep(o, r)
    \/ \E o \in Ops : PQBatchDone(o)
    \/ \E o \in Ops : PQDelayDone(o)
    \/ \E i \in 1..Len(loops) : RLResume(i)
    \/ \E i \in 1..Len(loops) : RLTimerFire(i)

SuiteBatchInit ==
    /\ numItems \in QuestionCounts
    /\ batchSize \in SuiteSizes
    /\ concurrency \in SuiteSizes
    /\ bpc = "idle"
    /\ batchIdx = 0
    /\ chunkIdx = 0
    /\ batchResults = <<>>
    /\ results = <<>>

SuiteLimiterInit ==
    /\ requestsPerSecond \in SuiteRates
    /\ queue = <<>>
    /\ processing = FALSE
    /\ lastRequestTime = 0
    /\ loops = <<>>
    /\ opState = [o \in Ops |-> "idle"]
    /\ promise = [o \in Ops |-> [state |-> "none", from |-> 0]]
    /\ starts = <<>>
    /\ submitted = <<>>
    /\ settles = <<>>
    /\ now = Epoch

(***************************************************************************)
(* Startup: --env, getEnvironmentConfig, validateAllEnvironments           *)
(***************************************************************************)
\* At most this many of the variables and prompt files are missing
MaxMissing == 2

\* version is undefined for an --env entry that names no build
NoVersion == ""

validEnvs == {"dev", "staging", "production"}

\* The --env entries tried: with and without a build version, a version in
\* upper case ("3A3D"), one with a space in it ("rc 1"), and a name that is
\* no environment ("qa")
Targets ==
    {[baseEnv |-> "dev", version |-> NoVersion],
     [baseEnv |-> "dev", version |-> "abc123"],
     [baseEnv |-> "production", version |-> NoVersion],
     [baseEnv |-> "production", version |-> "abc123"],
     [baseEnv |-> "production", version |-> "3A3D"],
     [baseEnv |-> "production", version |-> "rc 1"],
     [baseEnv |-> "qa", version |-> NoVersion]}

EnvLists == {<<a>> : a \in Targets} \cup {<<a, b>> : a \in Targets, b \in Targets}

\* A text that may be a URL: its scheme ("" when it has none), the labels of
\* its host, each the sequence of its pieces, and its path as written
ExampleHost == <<(<<"app-production">>), (<<"example">>), (<<"com">>)>>
AddressHost == <<(<<"10">>), (<<"0">>), (<<"0">>), (<<"5">>)>>

\* https://app-production.example.com/v1/sql, https://app-production.example.com,
\* http://10.0.0.5/v1/sql and app-production.example.com/v1/sql
ConfiguredUrls ==
    {[scheme |-> "https", host |-> ExampleHost, path |-> "/v1/sql"],
     [scheme |-> "https", host |-> ExampleHost, path |-> ""],
     [scheme |-> "http", host |-> AddressHost, path |-> "/v1/sql"],
     [scheme |-> "", host |-> ExampleHost, path |-> "/v1/sql"]}

\* The value of a variable that is not set
Undefined == [scheme |-> "", host |-> <<>>, path |-> ""]

PatronusVars == {"PATRONUS_BASE_URL", "PATRONUS_API_KEY", "PATRONUS_PROJECT_ID"}

\* The variables validateAllEnvironments checks for one environment
RequiredVars(baseEnv) ==
    CASE baseEnv = "dev" ->
           {"PROMPTQL_DATA_PLANE_URL_SECONDARY", "PROMPTQL_API_KEY_DEV", "DDN_URL_DEV"}
      [] baseEnv = "staging" ->
           {"PROMPTQL_DATA_PLANE_URL_MAIN", "PROMPTQL_API_KEY_STAGING",
            "DDN_URL_STAGING"}
      [] baseEnv = "production" ->
           {"PROMPTQL_DATA_PLANE_URL_MAIN", "PROMPTQL_API_KEY_PRODUCTION",
            "DDN_URL_PRODUCTION"}
      [] OTHER -> {}

CommonVars == {"DDN_AUTH_TOKEN", "HASURA_PAT"}

\* path.join(process.cwd(), "system_prompts", `${env.baseEnv}.txt`)
PromptFile(baseEnv) ==
    CASE baseEnv = "dev" -> "system_prompts/dev.txt"
      [] baseEnv = "staging" -> "system_prompts/staging.txt"
      [] baseEnv = "production" -> "system_prompts/production.txt"
      [] OTHER -> "system_prompts/other.txt"

\* What can be set or present for the environments tried
AllItems ==
    RequiredVars("dev") \cup RequiredVars("production") \cup CommonVars
        \cup {PromptFile("dev"), PromptFile("production")} \cup PatronusVars

\* displayName: version ? `${baseEnv}(${version})` : baseEnv
DisplayName(baseEnv, version) ==
    IF version # NoVersion THEN <<baseEnv, "(", version, ")">> ELSE <<baseEnv>>

\* The coerce function of the env option, for one entry
CoerceEnv(e) ==
    [baseEnv |-> e.baseEnv, version |-> e.version,
     displayName |-> DisplayName(e.baseEnv, e.version)]

\* process.env.X as a truth value, and the text of a DDN_URL_* variable
IsSet(name) == name \in procEnv
UrlOf(name) == IF name \in procEnv THEN ddnUrl ELSE Undefined

\* configs[env.baseEnv]
Configs(baseEnv) ==
    CASE baseEnv = "dev" ->
           [PROMPTQL_URL |-> IsSet("PROMPTQL_DATA_PLANE_URL_SECONDARY"),
            PROMPTQL_API_KEY |-> IsSet("PROMPTQL_API_KEY_DEV"),
            DDN_URL |-> UrlOf("DDN_URL_DEV"),
            PATRONUS_BASE_URL |-> IsSet("PATRONUS_BASE_URL"),
            PATRONUS_API_KEY |-> IsSet("PATRONUS_API_KEY"),
            PATRONUS_PROJECT_ID |-> IsSet("PATRONUS_PROJECT_ID")]
      [] baseEnv = "staging" ->
           [PROMPTQL_URL |-> IsSet("PROMPTQL_DATA_PLANE_URL_MAIN"),
            PROMPTQL_API_KEY |-> IsSet("PROMPTQL_API_KEY_STAGING"),
            DDN_URL |-> UrlOf("DDN_URL_STAGING"),
            PATRONUS_BASE_URL |-> IsSet("PATRONUS_BASE_URL"),
            PATRONUS_API_KEY |-> IsSet("PATRONUS_API_KEY"),
            PATRONUS_PROJECT_ID |-> IsSet("PATRONUS_PROJECT_ID")]
      [] OTHER ->
           [PROMPTQL_URL |-> IsSet("PROMPTQL_DATA_PLANE_URL_MAIN"),
            PROMPTQL_API_KEY |-> IsSet("PROMPTQL_API_KEY_PRODUCTION"),
            DDN_URL |-> UrlOf("DDN_URL_PRODUCTION"),
            PATRONUS_BASE_URL |-> IsSet("PATRONUS_BASE_URL"),
            PATRONUS_API_KEY |-> IsSet("PATRONUS_API_KEY"),
            PATRONUS_PROJECT_ID |-> IsSet("PATRONUS_PROJECT_ID")]

NoConfig ==
    [PROMPTQL_URL |-> FALSE, PROMPTQL_API_KEY |-> FALSE, DDN_URL |-> Undefined,
     PATRONUS_BASE_URL |-> FALSE, PATRONUS_API_KEY |-> FALSE,
     PATRONUS_PROJECT_ID |-> FALSE]

\* The host parser of the URL class: it puts a host in lower case, ...
LowerPiece(p) == IF p = "3A3D" THEN "3a3d" ELSE p
LowerHost(host) ==
    [k \in 1..Len(host) |-> [j \in 1..Len(host[k]) |-> LowerPiece(host[k][j])]]

\* ... rejects a host with a code point no host may hold (the space of "rc 1"),
ForbiddenPieces == {"rc 1"}
NumberPieces == {"10", "0", "5"}
HasForbidden(host) ==
    \E k \in 1..Len(host) : \E j \in 1..Len(host[k]) : host[k][j] \in ForbiddenPieces

\* ... and reads a host whose last label is a number as an IPv4 address, which
\* it then has to be
EndsInNumber(host) ==
    /\ Len(host) > 0
    /\ Len(host[Len(host)]) = 1
    /\ host[Len(host)][1] \in NumberPieces
IsAddress(host) ==
    /\ Len(host) <= 4
    /\ \A k \in 1..Len(host) : Len(host[k]) = 1 /\ host[k][1] \in NumberPieces
ValidHost(host) ==
    /\ ~HasForbidden(host)
    /\ (EndsInNumber(host) => IsAddress(host))

\* new URL(baseUrl): throws on a text with no scheme; the URL it makes has the
\* host in lower case and the path "/" for an empty one
CanParse(text) == text.scheme # "" /\ ValidHost(text.host)
ParseUrl(text) ==
    [protocol |-> text.scheme, hostname |-> LowerHost(text.host),
     pathname |-> IF text.path = "" THEN "/" ELSE text.path]

\* parts[0] = `${parts[0]}-${env.version}`
SuffixFirst(parts, version) ==
    <<Head(parts) \o <<"-", version>>>> \o Tail(parts)

\* url.hostname = value: an invalid host name is ignored
SetHostname(url, host) ==
    IF ValidHost(host) THEN [url EXCEPT !.hostname = LowerHost(host)] ELSE url

\* url.toString()
UrlToString(url) ==
    [scheme |-> url.protocol, host |-> url.hostname, path |-> url.pathname]

\* getEnvironmentConfig(env) of the suite: the error it throws ("none" when it
\* returns) and the configuration it returns
GetEnvironmentConfigUnversioned(env) ==
    IF env.baseEnv \notin validEnvs
    THEN [error |-> "Invalid environment", config |-> NoConfig]
    ELSE [error |-> "none", config |-> Configs(env.baseEnv)]
GetEnvironmentConfig(env) ==
    IF env.baseEnv \notin validEnvs
    THEN [error |-> "Invalid environment", config |-> NoConfig]
    ELSE LET config == Configs(env.baseEnv)
             baseUrl == config.DDN_URL
         IN IF env.version = NoVersion
            THEN [error |-> "none", config |-> config]
            ELSE IF baseUrl = Undefined
            THEN [error |-> "DDN_URL not configured", config |-> NoConfig]
            ELSE IF ~CanParse(baseUrl)
            THEN [error |-> "Invalid DDN_URL format", config |-> NoConfig]
            ELSE LET url == ParseUrl(baseUrl)
                     parts == url.hostname
                 IN [error |-> "none",
                     config |-> [config EXCEPT !.DDN_URL =
                         UrlToString(SetHostname(url,
                             SuffixFirst(parts, env.version)))]]

\* getEnvironmentConfig(env) of shared.ts
GetEnvironmentConfigShared(baseEnv) ==
    IF baseEnv \notin validEnvs
    THEN [error |-> "Invalid environment", config |-> NoConfig]
    ELSE [error |-> "none", config |-> Configs(baseEnv)]

\* validateAllEnvironments: missingVars of one environment
MissingVars(env) ==
    {i \in RequiredVars(env.baseEnv) \cup CommonVars \cup {PromptFile(env.baseEnv)} :
        i \notin procEnv}

\* validateAllEnvironments: allMissingVars, as the pairs of a display name and
\* an item listed under it
AllMissingVars(envs) ==
    UNION {{<<envs[k].displayName, i>> : i \in MissingVars(envs[k])} :
              k \in 1..Len(envs)}

NoError == [kind |-> "none", missing |-> {}]

\* The state once the module has loaded for --env dev with everything set
StartupIdle ==
    /\ requested = <<[baseEnv |-> "dev", version |-> NoVersion]>>
    /\ procEnv = AllItems
    /\ ddnUrl = [scheme |-> "https", host |-> ExampleHost, path |-> "/v1/sql"]
    /\ spc = "ready"
    /\ argvEnv = <<CoerceEnv([baseEnv |-> "dev", version |-> NoVersion])>>
    /\ envConfigs = <<[name |-> <<"dev">>, config |-> Configs("dev")]>>
    /\ startupError = NoError

StartupInit ==
    /\ requested \in EnvLists
    /\ \E missing \in SUBSET AllItems :
          /\ Cardinality(missing) <= MaxMissing
          /\ procEnv = AllItems \ missing
    /\ ddnUrl \in ConfiguredUrls
    /\ spc = "args"
    /\ argvEnv = <<>>
    /\ envConfigs = <<>>
    /\ startupError = NoError

\* yargs applies coerce to --env: an entry that names no environment ends the
\* run.
ParseEnvArg ==
    /\ spc = "args"
    /\ IF \E k \in 1..Len(requested) : requested[k].baseEnv \notin validEnvs
       THEN /\ spc' = "threw"
            /\ startupError' = [kind |-> "Invalid environment", missing |-> {}]
            /\ UNCHANGED argvEnv
       ELSE /\ spc' = "resolve"
            /\ argvEnv' = [k \in 1..Len(requested) |-> CoerceEnv(requested[k])]
            /\ UNCHANGED startupError
    /\ UNCHANGED <<requested, procEnv, ddnUrl, envConfigs>>
    /\ UNCHANGED notStartup

\* const envConfigs = argv.env.map(...): the first call of getEnvironmentConfig
\* that throws ends the run.
ResolveEnvs ==
    /\ spc = "resolve"
    /\ LET failing == {k \in 1..Len(argvEnv) :
                          GetEnvironmentConfig(argvEnv[k]).error # "none"}
       IN IF failing # {}
          THEN /\ spc' = "threw"
               /\ startupError' =
                     [kind |-> GetEnvironmentConfig(
                                   argvEnv[CHOOSE k \in failing :
                                              \A j \in failing : k <= j]).error,
                      missing |-> {}]
               /\ UNCHANGED envConfigs
          ELSE /\ spc' = "validate"
               /\ envConfigs' = [k \in 1..Len(argvEnv) |->
                     [name |-> argvEnv[k].displayName,
                      config |-> GetEnvironmentConfig(argvEnv[k]).config]]
               /\ UNCHANGED startupError
    /\ UNCHANGED <<requested, procEnv, ddnUrl, argvEnv>>
    /\ UNCHANGED notStartup

\* validateAllEnvironments(argv.env)
ValidateEnvs ==
    /\ spc = "validate"
    /\ IF AllMissingVars(argvEnv) # {}
       THEN /\ spc' = "threw"
            /\ startupError' = [kind |-> "Missing required configuration",
                                missing |-> AllMissingVars(argvEnv)]
       ELSE /\ spc' = "ready"
            /\ UNCHANGED startupError
    /\ UNCHANGED <<requested, procEnv, ddnUrl, argvEnv, envConfigs>>
    /\ UNCHANGED notStartup

StartupNext ==
    \/ ParseEnvArg
    \/ ResolveEnvs
    \/ ValidateEnvs

(***************************************************************************)
(* callPatronusJudge: one call                                             *)
(***************************************************************************)
judgeMaxRetries == 3
retryDelay == 1000

\* A field the response does not have (undefined)
Absent == 0 - 1

\* results[0] or its evaluation_result: present or not, and its fields, each
\* with the value it carries when it is there
Fields ==
    [present : {TRUE}, score_raw : {Absent, 9}, score : {Absent, 5},
     pass : {"undefined", "true"}, passed : {"undefined", "false"},
     explanation : {"", "because"}]

NoObject ==
    [present |-> FALSE, score_raw |-> Absent, score |-> Absent,
     pass |-> "undefined", passed |-> "undefined", explanation |-> ""]

EmptyObject == [NoObject EXCEPT !.present = TRUE]

\* The bodies of a response with status 200: the fields sit in results[0] or in
\* results[0].evaluation_result; results[0] has an error_message; there is no
\* results list
Bodies ==
    {[error_message |-> FALSE, entry |-> f, evaluation_result |-> NoObject] :
        f \in Fields}
    \cup {[error_message |-> FALSE, entry |-> EmptyObject, evaluation_result |-> f] :
        f \in Fields}
    \cup {[error_message |-> TRUE, entry |-> EmptyObject, evaluation_result |-> NoObject],
          [error_message |-> FALSE, entry |-> NoObject, evaluation_result |-> NoObject]}

NoBody == [error_message |-> FALSE, entry |-> NoObject, evaluation_result |-> NoObject]

\* What an attempt can meet:
\*   "reject"  axios.post rejects: no response, a timeout after 30 s, a status
\*             outside 2xx
\*   "status"  a status of 2xx other than 200
\*   "ok"      status 200, with the body
\*   "config"  PATRONUS_BASE_URL is not set: the attempt throws before any request
JudgeResponses ==
    {[kind |-> "reject", body |-> NoBody], [kind |-> "status", body |-> NoBody]}
        \cup {[kind |-> "ok", body |-> b] : b \in Bodies}

\* The attempt throws inside the try
AttemptFails(r) ==
    \/ r.kind \in {"reject", "status", "config"}
    \/ r.body.error_message

\* results?.[0]?.evaluation_result || results?.[0] || {}
ResultObject(body) ==
    IF body.evaluation_result.present THEN body.evaluation_result
    ELSE IF body.entry.present THEN body.entry
    ELSE EmptyObject

ScoreOfPlainFirst(result) ==
    IF result.score # Absent THEN result.score
    ELSE IF result.score_raw # Absent THEN result.score_raw
    ELSE 0
\* score_raw !== undefined ? score_raw : score !== undefined ? score : 0
ScoreOf(result) ==
    IF result.score_raw # Absent THEN result.score_raw
    ELSE IF result.score # Absent THEN result.score
    ELSE 0

\* pass !== undefined ? pass : passed !== undefined ? passed : false
PassedOf(result) ==
    IF result.pass # "undefined" THEN result.pass
    ELSE IF result.passed # "undefined" THEN result.passed
    ELSE "false"

\* result.explanation || result.details || "No details provided"
DetailsOf(result) ==
    IF result.explanation # "" THEN result.explanation ELSE "No details provided"

\* What callPatronusJudge has come to: nothing yet, a returned value (null or
\* the parsed result), or an error thrown to the caller
JudgePending == [kind |-> "pending", passed |-> "false", score |-> 0, details |-> ""]
JudgeNull == [kind |-> "null", passed |-> "false", score |-> 0, details |-> ""]
JudgeThrew == [kind |-> "threw", passed |-> "false", score |-> 0, details |-> ""]
JudgeValue(body) ==
    [kind |-> "value", passed |-> PassedOf(ResultObject(body)),
     score |-> ScoreOf(ResultObject(body)),
     details |-> DetailsOf(ResultObject(body))]

OnFailureRethrow(a) == IF a < judgeMaxRetries THEN "sleep" ELSE "threw"
\* catch: if (attempt < maxRetries) { sleep; continue; } return null;
OnFailure(a) == IF a < judgeMaxRetries THEN "sleep" ELSE "null"

\* The body of the loop for attempt a, up to its await or its return, when the
\* attempt does not get as far as the request
JudgeFailed(a, log) ==
    /\ jAttempt' = a
    /\ jLog' = log
    /\ IF OnFailure(a) = "sleep"
       THEN jpc' = "sleep" /\ jResult' = JudgePending
       ELSE /\ jpc' = "returned"
            /\ jResult' = IF OnFailure(a) = "null" THEN JudgeNull ELSE JudgeThrew

\* The body of the loop for attempt a, from its start
JudgeAttempt(a) ==
    IF jBaseUrl
    THEN /\ jAttempt' = a
         /\ jpc' = "request"
         /\ UNCHANGED <<jLog, jResult>>
    ELSE JudgeFailed(a, Append(jLog, [kind |-> "config", body |-> NoBody]))

JudgeIdle ==
    /\ jBaseUrl = TRUE
    /\ jAttempt = 1
    /\ jpc = "request"
    /\ jLog = <<>>
    /\ jWaits = <<>>
    /\ jResult = JudgePending

\* callPatronusJudge has been called and has run up to its first await
JudgeInit ==
    /\ jBaseUrl \in BOOLEAN
    /\ jAttempt = 1
    /\ jWaits = <<>>
    /\ jResult = JudgePending
    /\ IF jBaseUrl
       THEN jpc = "request" /\ jLog = <<>>
       ELSE jpc = "sleep" /\ jLog = <<[kind |-> "config", body |-> NoBody]>>

\* axios.post settles with r.
JudgeRespond(r) ==
    /\ jpc = "request"
    /\ IF AttemptFails(r)
       THEN JudgeFailed(jAttempt, Append(jLog, r))
       ELSE /\ jLog' = Append(jLog, r)
            /\ jpc' = "returned"
            /\ jResult' = JudgeValue(r.body)
            /\ UNCHANGED jAttempt
    /\ UNCHANGED <<jBaseUrl, jWaits>>
    /\ UNCHANGED notJudge

\* The timer of the wait between two attempts fires: attempt++ and the next
\* turn of the loop.
JudgeWake ==
    /\ jpc = "sleep"
    /\ jWaits' = Append(jWaits, retryDelay)
    /\ jAttempt + 1 <= judgeMaxRetries
    /\ JudgeAttempt(jAttempt + 1)
    /\ UNCHANGED jBaseUrl
    /\ UNCHANGED notJudge

JudgeNext ==
    \/ \E r \in JudgeResponses : JudgeRespond(r)
    \/ JudgeWake

(***************************************************************************)
(* runQuestionTests -> callPromptQL -> getTrace, evaluateAccuracy: one run *)
(***************************************************************************)
\* response.data, or error.response?.data: JSON null or nothing, an empty
\* text, a body
Datas == {"null", "", "body"}

\* What the request to the QA backend can settle with: a rejection ("error":
\* no response, or a status outside 2xx) or a response ("ok") whose
\* traceparent header is absent ("none"), has no "-" in it ("nodash"), has an
\* empty second part ("empty") or is well formed ("valid")
QAResponses ==
    {[kind |-> "error", traceparent |-> "none", data |-> d] : d \in Datas}
        \cup {[kind |-> "ok", traceparent |-> tp, data |-> d] :
                 tp \in {"none", "nodash", "empty", "valid"}, d \in Datas}

NoResponse == [kind |-> "none", traceparent |-> "none", data |-> "null"]

\* traceparent?.split("-")[1] ?? null
TraceIdOf(traceparent) ==
    CASE traceparent = "valid" -> Some("4bf92f35")
      [] traceparent = "empty" -> Some("")
      [] OTHER -> Null

TraceIdMissingNullOnly(traceId) == traceId = Null
\* if (!traceId)
TraceIdMissing(traceId) == traceId = Null \/ traceId = Some("")

\* error.response?.data || null
ErrorData(data) == IF data \in {"null", ""} THEN "null" ELSE data

NsPerSecond == 1000000000

\* What getTrace returns: the Duration of the POST:/query span, which is always
\* there, of the sql_engine_execute_sql span and of the call_llm_streaming span
\* (Absent when there is no such span), in nanoseconds, and the number of
\* promptql_exec_code_streaming spans
Traces ==
    [root : {1000000000, 2000000000},
     sql : {Absent, 0, 1000000000, 2000000000},
     llm : {Absent, 1000000000},
     steps : {0, 1}]

NoTrace == [root |-> Absent, sql |-> Absent, llm |-> Absent, steps |-> 0]

\* parseInt(span.Duration) / 1_000_000_000, for durations of whole seconds
SpanSeconds(duration) == duration \div NsPerSecond

\* x || 0
OrZero(x) == IF x = Null THEN 0 ELSE x[1]

NoDurations ==
    [sql_engine_execute_sql |-> Null, call_llm_streaming |-> Null,
     pure_code_execution |-> Null]

SpanDurationsClamped(spans) ==
    LET sqlEngineTime == IF spans.sql # Absent
                         THEN Some(SpanSeconds(spans.sql)) ELSE Null
        llmStreamingTime == IF spans.llm # Absent
                            THEN Some(SpanSeconds(spans.llm)) ELSE Null
    IN [sql_engine_execute_sql |-> sqlEngineTime,
        call_llm_streaming |-> llmStreamingTime,
        pure_code_execution |->
            Some(Max(0, SpanSeconds(spans.root) - OrZero(sqlEngineTime)
                          - OrZero(llmStreamingTime)))]
\* sqlEngineTime, llmStreamingTime and pureCodeTime = durationS -
\* (sqlEngineTime || 0) - (llmStreamingTime || 0)
SpanDurations(spans) ==
    LET sqlEngineTime == IF spans.sql # Absent
                         THEN Some(SpanSeconds(spans.sql)) ELSE Null
        llmStreamingTime == IF spans.llm # Absent
                            THEN Some(SpanSeconds(spans.llm)) ELSE Null
    IN [sql_engine_execute_sql |-> sqlEngineTime,
        call_llm_streaming |-> llmStreamingTime,
        pure_code_execution |->
            Some(SpanSeconds(spans.root) - OrZero(sqlEngineTime)
                   - OrZero(llmStreamingTime))]

\* traces.filter((t) => t.SpanName === "promptql_exec_code_streaming").length
Iterations(spans) == spans.steps

\* The record callPromptQL returns when the request failed or brought no trace
\* id, and when getTrace threw
FailureResult(success, traceId, raw) ==
    [success |-> success, duration |-> Null, traceId |-> traceId,
     spanDurations |-> NoDurations, iterations |-> Null,
     raw_response |-> raw, accuracy |-> Null]

\* The record callPromptQL returns when the trace has the POST:/query span
MeasuredResult(traceId, spans, raw, accuracy) ==
    [success |-> TRUE, duration |-> Some(SpanSeconds(spans.root)),
     traceId |-> traceId, spanDurations |-> SpanDurations(spans),
     iterations |-> Some(Iterations(spans)),
     raw_response |-> raw, accuracy |-> accuracy]

\* What callPromptQL returns for a QA response it does not pursue
QAFailure(resp) ==
    IF resp.kind = "error"
    THEN FailureResult(FALSE, Null, ErrorData(resp.data))
    ELSE FailureResult(FALSE, Null, resp.data)

\* runQuestionTests: a record when result.success and result.duration !== null,
\* null otherwise
RunRecord(result, runNumber) ==
    IF result.success /\ result.duration # Null
    THEN Some([duration |-> result.duration[1], run_number |-> runNumber + 1,
               trace_id |-> result.traceId, iterations |-> result.iterations,
               span_durations |-> result.spanDurations,
               accuracy |-> result.accuracy,
               raw_response |-> result.raw_response])
    ELSE Null

JudgingEnabledWithoutProject ==
    /\ ~skipAccuracy
    /\ envConfigs[1].config.PATRONUS_BASE_URL
    /\ envConfigs[1].config.PATRONUS_API_KEY
\* !argv["skip-accuracy"] && config.PATRONUS_BASE_URL && config.PATRONUS_API_KEY
\* && config.PATRONUS_PROJECT_ID
JudgingEnabled ==
    /\ ~skipAccuracy
    /\ envConfigs[1].config.PATRONUS_BASE_URL
    /\ envConfigs[1].config.PATRONUS_API_KEY
    /\ envConfigs[1].config.PATRONUS_PROJECT_ID

\* What a call of callPatronusJudge comes to, for evaluateAccuracy: null, or a
\* result that passed or did not
JudgeOutcomes == {"null", "pass", "fail"}

AccuracyOfEither(fuzzy, data) ==
    IF fuzzy = "null" /\ data = "null"
    THEN Null
    ELSE Some([fuzzy_match |-> fuzzy, data_accuracy |-> data])
\* evaluateAccuracy: if (!fuzzyMatchResult || !dataAccuracyResult) return null
AccuracyOf(fuzzy, data) ==
    IF fuzzy = "null" \/ data = "null"
    THEN Null
    ELSE Some([fuzzy_match |-> fuzzy, data_accuracy |-> data])

\* runQuestionTests has been called (runNumber 0) and callPromptQL has sent
\* its request to the QA backend
FreshRun ==
    [pc |-> "qa", qaRequests |-> 1, qa |-> NoResponse, traceId |-> Null,
     traceCalls |-> 0, traceEnd |-> "none", spans |-> NoTrace,
     judgeCalls |-> 0, fuzzy |-> "idle", data |-> "idle",
     result |-> Null, record |-> Null]

RunIdle ==
    /\ skipAccuracy = FALSE
    /\ run = FreshRun

RunInit ==
    /\ skipAccuracy \in BOOLEAN
    /\ run = FreshRun

\* The module has loaded for --env dev; the Patronus variables may be missing,
\* which validateAllEnvironments does not mind
RunStartup ==
    /\ requested = <<[baseEnv |-> "dev", version |-> NoVersion]>>
    /\ \E missing \in SUBSET PatronusVars :
          /\ Cardinality(missing) <= 1
          /\ procEnv = AllItems \ missing
    /\ ddnUrl = [scheme |-> "https", host |-> ExampleHost, path |-> "/v1/sql"]
    /\ spc = "ready"
    /\ argvEnv = <<CoerceEnv([baseEnv |-> "dev", version |-> NoVersion])>>
    /\ envConfigs = <<[name |-> <<"dev">>, config |-> Configs("dev")]>>
    /\ startupError = NoError

\* callPromptQL returns result: runQuestionTests goes on and returns.
Returned(r, result) ==
    [r EXCEPT !.pc = "returned", !.result = Some(result),
              !.record = RunRecord(result, 0)]

\* The request to the QA backend settles with resp.
QARespond(resp) ==
    /\ run.pc = "qa"
    /\ LET r == [run EXCEPT !.qa = resp]
           traceId == TraceIdOf(resp.traceparent)
       IN IF resp.kind = "error" \/ TraceIdMissing(traceId)
          THEN run' = Returned(r, QAFailure(resp))
          ELSE run' = [r EXCEPT !.pc = "trace", !.traceId = traceId,
                                !.traceCalls = @ + 1]
    /\ UNCHANGED skipAccuracy
    /\ UNCHANGED notRun

TraceSettleJudgesAnyway(end, spans) ==
    /\ run.pc = "trace"
    /\ LET r == [run EXCEPT !.traceEnd = end, !.spans = spans]
       IN IF JudgingEnabled
          THEN run' = [r EXCEPT !.pc = "judges", !.judgeCalls = @ + 2,
                                !.fuzzy = "pending", !.data = "pending"]
          ELSE IF end # "found"
          THEN run' = Returned(r, FailureResult(TRUE, run.traceId, run.qa.data))
          ELSE run' = Returned(r, MeasuredResult(run.traceId, spans,
                                                 run.qa.data, Null))
    /\ UNCHANGED skipAccuracy
    /\ UNCHANGED notRun
\* getTrace returns, with the POST:/query span and the spans given, or throws
\* (end = "exhausted" after its last attempt, "transport" on a failed query).
TraceSettle(end, spans) ==
    /\ run.pc = "trace"
    /\ LET r == [run EXCEPT !.traceEnd = end, !.spans = spans]
       IN IF end # "found"
          THEN run' = Returned(r, FailureResult(TRUE, run.traceId, run.qa.data))
          ELSE IF JudgingEnabled
          THEN run' = [r EXCEPT !.pc = "judges", !.judgeCalls = @ + 2,
                                !.fuzzy = "pending", !.data = "pending"]
          ELSE run' = Returned(r, MeasuredResult(run.traceId, spans,
                                                 run.qa.data, Null))
    /\ UNCHANGED skipAccuracy
    /\ UNCHANGED notRun

\* One of the two calls of callPatronusJudge returns; when both have,
\* Promise.all fulfils, evaluateAccuracy returns and callPromptQL with it.
JudgeSettle(judge, outcome) ==
    /\ run.pc = "judges"
    /\ \/ /\ judge = "fuzzy-match-v2"
          /\ run.fuzzy = "pending"
          /\ LET r == [run EXCEPT !.fuzzy = outcome]
             IN run' = IF r.data = "pending" THEN r
                       ELSE Returned(r, MeasuredResult(r.traceId, r.spans, r.qa.data,
                                        AccuracyOf(r.fuzzy, r.data)))
       \/ /\ judge = "check-data-accuracy"
          /\ run.data = "pending"
          /\ LET r == [run EXCEPT !.data = outcome]
             IN run' = IF r.fuzzy = "pending" THEN r
                       ELSE Returned(r, MeasuredResult(r.traceId, r.spans, r.qa.data,
                                        AccuracyOf(r.fuzzy, r.data)))
    /\ UNCHANGED skipAccuracy
    /\ UNCHANGED notRun

RunQuestionNext ==
    \/ \E resp \in QAResponses : QARespond(resp)
    \/ \E spans \in Traces : TraceSettle("found", spans)
    \/ \E end \in {"exhausted", "transport"} : TraceSettle(end, NoTrace)
    \/ \E judge \in {"fuzzy-match-v2", "check-data-accuracy"},
          outcome \in JudgeOutcomes : JudgeSettle(judge, outcome)

(***************************************************************************)
(* runLatencyTests: the results object, for questions that all start at    *)
(* once (--rate-limit 0, one batch, one chunk: the defaults for up to five  *)
(* questions) and no delay between batches of runs                         *)
(***************************************************************************)
\* A pair of a question and an environment is tried with at most this many runs
MaxAttempted == 2

\* argv.runs and argv["num-batches"]
RunShapes ==
    {sh \in [runs : 1..MaxAttempted, batches : 1..MaxAttempted] :
        sh.runs * sh.batches <= MaxAttempted}

\* The --env lists, which may name an environment twice, and the texts of the
\* selected questions, which may hold the same text twice
TestsEnvLists ==
    {<<[baseEnv |-> "dev", version |-> NoVersion]>>,
     <<[baseEnv |-> "dev", version |-> "abc123"]>>,
     <<[baseEnv |-> "dev", version |-> NoVersion],
       [baseEnv |-> "dev", version |-> "abc123"]>>,
     <<[baseEnv |-> "dev", version |-> NoVersion],
       [baseEnv |-> "dev", version |-> NoVersion]>>}

QuestionLists == {<<"q1">>, <<"q1", "q2">>, <<"q1", "q1">>}

\* system_prompts/<stem>.txt, named by its stem
PromptStems == {DisplayName("dev", NoVersion), DisplayName("dev", "abc123")}

\* baseEnv: envConfig.name.split("(")[0], version:
\* envConfig.name.match(/\(([^)]+)\)/)?.[1], displayName: envConfig.name
EnvOfName(name) ==
    [baseEnv |-> name[1],
     version |-> IF Len(name) > 1 THEN name[3] ELSE NoVersion,
     displayName |-> name]

LoadSystemPromptBaseOnly(env) ==
    IF DisplayName(env.baseEnv, NoVersion) \in readable
    THEN [ok |-> TRUE, file |-> DisplayName(env.baseEnv, NoVersion)]
    ELSE [ok |-> FALSE, file |-> DisplayName(env.baseEnv, NoVersion)]
\* loadSystemPrompt(env): the file it returns the text of, or the failure it
\* throws, naming the file of the environment
LoadSystemPrompt(env) ==
    IF env.version # NoVersion /\ env.displayName \in readable
    THEN [ok |-> TRUE, file |-> env.displayName]
    ELSE IF DisplayName(env.baseEnv, NoVersion) \in readable
    THEN [ok |-> TRUE, file |-> DisplayName(env.baseEnv, NoVersion)]
    ELSE [ok |-> FALSE, file |-> DisplayName(env.baseEnv, NoVersion)]

\* The keys of results.environments[name].questions[text]
Keys == PromptStems \X {"q1", "q2"}

KeyOf(e, q) == <<envConfigs[e].name, questions[q]>>

\* A call of processQuestion before it is made
NoCall ==
    [pc |-> "idle", env |-> 1, batch |-> 0, prompt |-> Null, runs |-> <<>>,
     allRuns |-> <<>>, written |-> 0]

\* The batch of runs of call c starts for its environment and batch:
\* Promise.all over NUM_RUNS calls of runQuestionTests, each of which gets as far
\* as its request to the QA backend, or rejects when loadSystemPrompt throws
StartBatchOfRuns(c) ==
    LET loaded == LoadSystemPrompt(EnvOfName(envConfigs[c.env].name))
    IN IF loaded.ok
       THEN [c EXCEPT !.pc = "runs", !.prompt = Some(loaded.file),
                      !.runs = [j \in 1..numRuns |-> "pending"]]
       ELSE [c EXCEPT !.pc = "rejected", !.prompt = Null,
                      !.runs = [j \in 1..numRuns |-> "rejected"]]

\* The value run j of the batch settled with: a record with its run_number, or
\* null
RunValue(c, j) ==
    IF c.runs[j] = "record" THEN Some(c.batch * numRuns + j) ELSE Null

\* const validRuns = allRuns.filter((run) => run !== null)
ValidRuns(allRuns) == SelectSeq(allRuns, LAMBDA r : r # Null)

\* The value assigned to results.environments[name].questions[text]
EntryOf(allRuns) ==
    LET validRuns == ValidRuns(allRuns)
        successfulRuns == Len(validRuns)
        failedRuns == numRuns - successfulRuns
    IN IF Len(validRuns) > 0
       THEN [runs |-> validRuns, successful_runs |-> successfulRuns,
             failed_runs |-> failedRuns]
       ELSE [runs |-> <<>>, successful_runs |-> 0, failed_runs |-> numRuns]

\* The loop over the batches of runs has ended for call q: the counts are added
\* to the metadata and the key is assigned
WriteEntry(T, q, allRuns) ==
    LET key == KeyOf(T.calls[q].env, q)
        successfulRuns == Len(ValidRuns(allRuns))
    IN [T EXCEPT !.environments[key] = Some(EntryOf(allRuns)),
                 !.keyWrites[key] = @ + 1,
                 !.calls[q].written = @ + 1,
                 !.metadata.successful_runs = @ + successfulRuns,
                 !.metadata.failed_runs = @ + (numRuns - successfulRuns)]

ContinueQuestionEntryAtReturn(T, q) ==
    LET c == T.calls[q]
        allRuns == c.allRuns \o [j \in 1..numRuns |-> RunValue(c, j)]
    IN IF c.batch + 1 < numBatches
       THEN [T EXCEPT !.calls[q] =
                StartBatchOfRuns([c EXCEPT !.batch = @ + 1, !.allRuns = allRuns])]
       ELSE IF c.env < Len(envConfigs)
       THEN [T EXCEPT !.calls[q] =
                StartBatchOfRuns([c EXCEPT !.env = @ + 1, !.batch = 0,
                                           !.allRuns = <<>>])]
       ELSE LET T1 == WriteEntry(T, q, allRuns)
            IN [T1 EXCEPT !.calls[q] =
                   [T1.calls[q] EXCEPT !.pc = "returned", !.allRuns = allRuns]]
\* Promise.all of the batch of runs of call q has fulfilled: allRuns.push(...runs),
\* then the next batch of runs, or the entry and the next environment, or the
\* return of processQuestion
ContinueQuestion(T, q) ==
    LET c == T.calls[q]
        allRuns == c.allRuns \o [j \in 1..numRuns |-> RunValue(c, j)]
    IN IF c.batch + 1 < numBatches
       THEN [T EXCEPT !.calls[q] =
                StartBatchOfRuns([c EXCEPT !.batch = @ + 1, !.allRuns = allRuns])]
       ELSE LET T1 == WriteEntry(T, q, allRuns)
            IN IF c.env < Len(envConfigs)
               THEN [T1 EXCEPT !.calls[q] =
                        StartBatchOfRuns([T1.calls[q] EXCEPT
                            !.env = @ + 1, !.batch = 0, !.allRuns = <<>>])]
               ELSE [T1 EXCEPT !.calls[q] =
                        [T1.calls[q] EXCEPT !.pc = "returned",
                                            !.allRuns = allRuns]]

\* processBatches, awaiting Promise.all of the calls: it rejects when one call
\* has, and main's catch ends the process with code 1; it fulfils when all
\* have, and runLatencyTests goes on to write the output files
SettleSuite(T) ==
    IF \E q \in 1..Len(questions) : T.calls[q].pc = "rejected"
    THEN [T EXCEPT !.pc = "exited"]
    ELSE IF \A q \in 1..Len(questions) : T.calls[q].pc = "returned"
    THEN [T EXCEPT !.pc = "written"]
    ELSE T

NoTests ==
    [pc |-> "loaded", calls |-> <<>>,
     environments |-> [k \in Keys |-> Null],
     keyWrites |-> [k \in Keys |-> 0],
     metadata |-> [successful_runs |-> 0, failed_runs |-> 0]]

TestsIdle ==
    /\ readable = PromptStems
    /\ questions = <<"q1">>
    /\ tests = NoTests

\* The module has loaded: validation has passed for every environment named,
\* whose base prompt file exists; whether a prompt file can be read is another
\* matter (a directory, a file without read permission, a file removed since)
TestsInit ==
    /\ readable \in SUBSET PromptStems
    /\ questions \in QuestionLists
    /\ tests = NoTests
    /\ requested \in TestsEnvLists
    /\ procEnv = AllItems
    /\ ddnUrl = [scheme |-> "https", host |-> ExampleHost, path |-> "/v1/sql"]
    /\ spc = "ready"
    /\ argvEnv = [k \in 1..Len(requested) |-> CoerceEnv(requested[k])]
    /\ envConfigs = [k \in 1..Len(requested) |->
          [name |-> DisplayName(requested[k].baseEnv, requested[k].version),
           config |-> GetEnvironmentConfig(CoerceEnv(requested[k])).config]]
    /\ startupError = NoError
    /\ \E sh \in RunShapes : numRuns = sh.runs /\ numBatches = sh.batches
    /\ numEnvs = Len(requested)
    /\ batchDelay = 0
    /\ pq = [o \in Ops |-> FreshQuestion(1)]
    /\ writes = [k \in Envs \X Ops |-> 0]

\* runLatencyTests is called: the results object is set up and processBatches
\* calls processQuestion for every question, which starts its first batch of
\* runs.
RunLatencyTests ==
    /\ tests.pc = "loaded"
    /\ tests' = SettleSuite(
          [tests EXCEPT !.pc = "running",
                        !.calls = [q \in 1..Len(questions) |->
                                      StartBatchOfRuns(NoCall)]])
    /\ UNCHANGED <<readable, questions>>
    /\ UNCHANGED notTests

\* runQuestionTests returns for run j of call q, with a record or with null;
\* when it is the last of its batch what follows it runs in the same turn.
RunSettles(q, j, outcome) ==
    /\ tests.pc = "running"
    /\ tests.calls[q].pc = "runs"
    /\ tests.calls[q].runs[j] = "pending"
    /\ LET T == [tests EXCEPT !.calls[q].runs[j] = outcome]
       IN tests' = IF \A i \in 1..numRuns : T.calls[q].runs[i] # "pending"
                   THEN SettleSuite(ContinueQuestion(T, q))
                   ELSE T
    /\ UNCHANGED <<readable, questions>>
    /\ UNCHANGED notTests

TestsNext ==
    \/ RunLatencyTests
    \/ \E q \in 1..Len(questions), j \in 1..numRuns, outcome \in {"record", "null"} :
          RunSettles(q, j, outcome)

(***************************************************************************)
(* update-golden: the golden answer of one question of evalset.csv         *)
(***************************************************************************)
\* argv.runs goes up to this
MaxGoldenRuns == 2

\* argv.question goes up to this, one more than the questions of the largest file
MaxQuestionNumber == 3

\* A text is a sequence of pieces; " " is white space
Blank == " "

\* csv-parse, trim: true: the white space around a field is dropped
RECURSIVE TrimLeft(_)
TrimLeft(text) ==
    IF text # <<>> /\ Head(text) = Blank THEN TrimLeft(Tail(text)) ELSE text

RECURSIVE TrimRight(_)
TrimRight(text) ==
    IF text # <<>> /\ text[Len(text)] = Blank
    THEN TrimRight(SubSeq(text, 1, Len(text) - 1))
    ELSE text

Trim(text) == TrimRight(TrimLeft(text))

\* The lines of evalset.csv after its header: an empty line, or a record
EmptyLine == [empty |-> TRUE, question |-> <<>>, gold_answer |-> <<>>]

Record(question, goldAnswer) ==
    [empty |-> FALSE, question |-> question, gold_answer |-> goldAnswer]

Header == <<"question", "gold_answer">>

EvalsetFiles ==
    {[header |-> Header, lines |-> <<>>],
     [header |-> Header, lines |-> <<Record(<<"q1">>, <<"a1">>)>>],
     [header |-> Header,
      lines |-> <<Record(<<"q1">>, <<"a1">>), Record(<<"q2">>, <<"a2">>)>>],
     [header |-> Header,
      lines |-> <<Record(<<"q1", Blank>>, <<Blank, "a1">>), EmptyLine,
                  Record(<<"q2">>, <<"a2", Blank>>)>>]}

\* loadQuestions(): the records of evalset.csv, parsed with columns: true,
\* skip_empty_lines: true, trim: true
LoadQuestions(file) ==
    LET records == SelectSeq(file.lines, LAMBDA l : ~l.empty)
    IN [i \in 1..Len(records) |->
           [question |-> Trim(records[i].question),
            gold_answer |-> Trim(records[i].gold_answer)]]

\* stringify(questions, {header: true, columns: {question, gold_answer}})
Stringify(records) ==
    [header |-> Header,
     lines |-> [i \in 1..Len(records) |->
                   Record(records[i].question, records[i].gold_answer)]]

\* response.data of the QA backend: the messages of assistant_actions and the
\* identifiers of modified_artifacts
ResponseDatas ==
    [assistant_actions : {<<>>, <<"m1", "m2">>, <<"m3">>},
     modified_artifacts : {<<>>, <<"art1">>}]

\* What callPromptQL of shared.ts returns: response.data, or null
GoldenResponses == {Null} \cup {Some(d) : d \in ResponseDatas}

RECURSIVE ArtifactLines(_)
ArtifactLines(artifacts) ==
    IF artifacts = <<>> THEN <<>>
    ELSE <<"- ", Head(artifacts), ": ", "data", "\n">>
             \o ArtifactLines(Tail(artifacts))

\* formatResponse(response), for a response that is not null
FormatResponse(response) ==
    (IF Len(response.assistant_actions) > 0
     THEN <<response.assistant_actions[Len(response.assistant_actions)], "\n\n">>
     ELSE <<>>)
    \o (IF Len(response.modified_artifacts) > 0
        THEN <<"Artifacts:\n">> \o ArtifactLines(response.modified_artifacts)
        ELSE <<>>)

\* What the user may type at the first prompt, character by character
Answers ==
    {<<>>, <<"0">>, <<"1">>, <<"2">>, <<"3">>, <<"-", "1">>, <<"x">>,
     <<"1", "x">>, <<Blank, "2">>, <<"1", "0">>}

Digits == {"0", "1", "2", "3"}

DigitValue(d) == CASE d = "0" -> 0 [] d = "1" -> 1 [] d = "2" -> 2 [] d = "3" -> 3

\* The digits a text starts with
RECURSIVE LeadingDigits(_)
LeadingDigits(text) ==
    IF text # <<>> /\ Head(text) \in Digits
    THEN <<Head(text)>> \o LeadingDigits(Tail(text))
    ELSE <<>>

RECURSIVE DecimalValue(_)
DecimalValue(digits) ==
    IF digits = <<>> THEN 0
    ELSE 10 * DecimalValue(SubSeq(digits, 1, Len(digits) - 1))
             + DigitValue(digits[Len(digits)])

\* parseInt(text): white space is skipped, then a sign and the digits that
\* follow are read and what comes after them is ignored; NaN (null here) when
\* there is no digit
ParseInt(text) ==
    LET t == TrimLeft(text)
        negative == t # <<>> /\ Head(t) = "-"
        digits == LeadingDigits(IF negative THEN Tail(t) ELSE t)
    IN IF digits = <<>> THEN Null
       ELSE Some(IF negative THEN 0 - DecimalValue(digits)
                 ELSE DecimalValue(digits))

\* isNaN(selection) || selection < 0 || selection > responses.length
InvalidSelection(selection, responses) ==
    selection = Null \/ selection[1] < 0 \/ selection[1] > Len(responses)

\* What the user may type at the second prompt
Confirmations == {"", "y", "Y", "n", "N", "yes", "YES"}

ToLowerCase(text) ==
    CASE text = "Y" -> "y"
      [] text = "N" -> "n"
      [] text = "YES" -> "yes"
      [] OTHER -> text

IsConfirmationLenient(confirm) == ToLowerCase(confirm) \in {"y", "yes"}
\* confirm.toLowerCase() === "y"
IsConfirmation(confirm) == ToLowerCase(confirm) = "y"

\* updateGoldenAnswer: questions[questionNumber - 1].gold_answer = newAnswer
UpdateGoldenAnswer(records, questionNumber, newAnswer) ==
    [records EXCEPT ![questionNumber].gold_answer = newAnswer]

NoGolden(file, question, runs, promptReadable) ==
    [pc |-> "load", file |-> file, original |-> file, question |-> question,
     runs |-> runs, promptReadable |-> promptReadable, questions |-> <<>>,
     i |-> 0, responses |-> <<>>, answer |-> <<>>, selection |-> Null,
     confirm |-> "", writes |-> 0]

GoldenIdle ==
    golden = NoGolden([header |-> Header, lines |-> <<>>], 1, 1, TRUE)

\* update-golden is started: --question, --runs, the evalset file and whether
\* the system prompt of the environment can be read
GoldenInit ==
    \E file \in EvalsetFiles, question \in 0..MaxQuestionNumber, runs \in 0..MaxGoldenRuns,
       promptReadable \in BOOLEAN :
        golden = NoGolden(file, question, runs, promptReadable)

\* main, once the loop over the runs has ended
AfterRuns(g) ==
    IF Len(g.responses) = 0
    THEN [g EXCEPT !.pc = "exited"]
    ELSE [g EXCEPT !.pc = "choose"]

\* The module loads: the questions are read and --question is validated; then
\* main starts: the system prompt is loaded and the first request goes out.
GoldenLoad ==
    /\ golden.pc = "load"
    /\ LET g == [golden EXCEPT !.questions = LoadQuestions(golden.file)]
       IN golden' =
            IF g.question < 1 \/ g.question > Len(g.questions)
            THEN [g EXCEPT !.pc = "exited"]
            ELSE IF ~g.promptReadable
            THEN [g EXCEPT !.pc = "threw"]
            ELSE IF g.i < g.runs
            THEN [g EXCEPT !.pc = "runs"]
            ELSE AfterRuns(g)
    /\ UNCHANGED notGolden

\* callPromptQL returns for run i: the response is kept when it is not null;
\* then the next run, or the first prompt, or the exit when no response came.
GoldenRunRespond(response) ==
    /\ golden.pc = "runs"
    /\ LET g == [golden EXCEPT
                    !.responses = IF response # Null
                                  THEN Append(@, response[1]) ELSE @,
                    !.i = @ + 1]
       IN golden' = IF g.i < g.runs THEN g ELSE AfterRuns(g)
    /\ UNCHANGED notGolden

\* The user answers the first prompt.
GoldenChoose(answer) ==
    /\ golden.pc = "choose"
    /\ LET selection == ParseInt(answer)
           g == [golden EXCEPT !.answer = answer, !.selection = selection]
       IN golden' =
            IF InvalidSelection(selection, g.responses)
            THEN [g EXCEPT !.pc = "exited"]
            ELSE IF selection[1] = 0
            THEN [g EXCEPT !.pc = "closed"]
            ELSE [g EXCEPT !.pc = "confirm"]
    /\ UNCHANGED notGolden

\* The user answers the second prompt: the file is written, or not.
GoldenConfirm(confirm) ==
    /\ golden.pc = "confirm"
    /\ LET g == [golden EXCEPT !.confirm = confirm, !.pc = "closed"]
           newGoldenAnswer == FormatResponse(g.responses[g.selection[1]])
           updated == UpdateGoldenAnswer(g.questions, g.question, newGoldenAnswer)
       IN golden' =
            IF IsConfirmation(confirm)
            THEN [g EXCEPT !.questions = updated,
                           !.file = Stringify(updated),
                           !.writes = @ + 1]
            ELSE g
    /\ UNCHANGED notGolden

GoldenNext ==
    \/ GoldenLoad
    \/ \E response \in GoldenResponses : GoldenRunRespond(response)
    \/ \E answer \in Answers : GoldenChoose(answer)
    \/ \E confirm \in Confirmations : GoldenConfirm(confirm)

(***************************************************************************)
(* Specifications                                                          *)
(***************************************************************************)
InitTrace == TraceInit /\ LimiterIdle /\ BatchIdle /\ SuiteIdle /\ StartupIdle
        /\ JudgeIdle /\ RunIdle /\ TestsIdle /\ GoldenIdle

SpecTrace == InitTrace /\ [][TraceNext]_vars

InitLimiter == TraceIdle /\ LimiterInit /\ BatchIdle /\ SuiteIdle /\ StartupIdle
        /\ JudgeIdle /\ RunIdle /\ TestsIdle /\ GoldenIdle

\* Every operation settles, a continuation that is ready runs, and a timer
\* that is set fires.
LimiterFairness ==
    /\ WF_vars(\E o \in Ops, outcome \in {"resolved", "rejected"} : RLSettle(o, outcome))
    /\ WF_vars(\E i \in 1..Len(loops) : RLResume(i))
    /\ WF_vars(\E i \in 1..Len(loops) : RLTimerFire(i))

SpecLimiter == InitLimiter /\ [][LimiterNext]_vars /\ LimiterFairness

\* The queries issued so far.
QueriesIssued == Len(polls) + (IF tpc = "query" THEN 1 ELSE 0)

\* Polls 1..k-1 came back without the root span and without a failure.
NoRootBefore(k) == \A j \in 1..(k - 1) : polls[j] \in {"noroot", "empty", "nolist"}

\* C1: when the backend first returns the root span on poll k (1 <= k <= 10),
\* getTrace has returned on attempt k, after exactly k-1 sleeps, the i-th of
\* which lasted min(2^(i-1) * 1000, 30000) ms.
C1_ReturnsOnFirstRootPoll ==
    \A k \in 1..maxRetries :
        (Len(polls) = k /\ polls[k] = "root" /\ NoRootBefore(k)) =>
            /\ tpc = "returned"
            /\ attempt = k
            /\ QueriesIssued = k
            /\ Len(sleeps) = k - 1
            /\ \A i \in 1..(k - 1) : sleeps[i] = Min((2 ^ (i - 1)) * 1000, 30000)

C1_Witness ==
    /\ tpc = "returned"
    /\ Len(polls) = 3
    /\ sleeps = <<1000, 2000>>

\* C2: when no poll ever returns the root span, getTrace issues exactly 10
\* queries and then fails; it sleeps between attempts only (9 sleeps), never
\* after the 10th attempt.
C2_ExhaustsAfterTenQueries ==
    /\ QueriesIssued <= maxRetries
    /\ (tpc = "sleep" => attempt < 10)
    /\ (Len(polls) = 10 /\ NoRootBefore(11)) =>
            /\ tpc = "threw"
            /\ terr = "exhausted"
            /\ QueriesIssued = 10
            /\ Len(sleeps) = 9
            /\ pending = 0
    /\ (terr = "exhausted" => Len(polls) = 10 /\ NoRootBefore(11))

C2_Witness ==
    /\ terr = "exhausted"
    /\ Len(polls) = 10
    /\ Len(sleeps) = 9

\* C3 as stated: when polling is exhausted the time slept in total does not
\* exceed about 94,000 ms.
C3_TotalSleepAtMost94s ==
    terr = "exhausted" => SumSeq(sleeps) <= 94000

\* C3 as amended: when polling is exhausted the nine sleeps add up to
\* exactly 151,000 ms (1+2+4+8+16 s, then four sleeps capped at 30 s), and the
\* time slept never exceeds that.
C3_TotalSleepIs151s ==
    /\ SumSeq(sleeps) + pending <= 151000
    /\ (terr = "exhausted" => SumSeq(sleeps) = 151000)

C3_Witness ==
    /\ terr = "exhausted"
    /\ SumSeq(sleeps) = 151000

InitBatch == TraceIdle /\ LimiterInit /\ BatchInit /\ SuiteIdle /\ StartupIdle
        /\ JudgeIdle /\ RunIdle /\ TestsIdle /\ GoldenIdle

SpecBatch == InitBatch /\ [][BatchNext]_vars

InitSuite ==
    TraceIdle /\ SuiteLimiterInit /\ SuiteBatchInit /\ SuiteInit /\ StartupIdle
        /\ JudgeIdle /\ RunIdle /\ TestsIdle /\ GoldenIdle

SpecSuite == InitSuite /\ [][SuiteNext]_vars

InitStartup ==
    TraceIdle /\ LimiterIdle /\ BatchIdle /\ SuiteIdle /\ StartupInit
        /\ JudgeIdle /\ RunIdle /\ TestsIdle /\ GoldenIdle

SpecStartup == InitStartup /\ [][StartupNext]_vars

InitJudge ==
    TraceIdle /\ LimiterIdle /\ BatchIdle /\ SuiteIdle /\ StartupIdle
        /\ JudgeInit /\ RunIdle /\ TestsIdle /\ GoldenIdle

SpecJudge == InitJudge /\ [][JudgeNext]_vars

InitRun ==
    TraceIdle /\ LimiterIdle /\ BatchIdle /\ SuiteIdle /\ RunStartup
        /\ JudgeIdle /\ RunInit /\ TestsIdle /\ GoldenIdle

SpecRun == InitRun /\ [][RunQuestionNext]_vars

InitTests ==
    TraceIdle /\ LimiterIdle /\ BatchIdle /\ TestsInit /\ JudgeIdle /\ RunIdle
        /\ GoldenIdle

InitGolden ==
    TraceIdle /\ LimiterIdle /\ BatchIdle /\ SuiteIdle /\ StartupIdle
        /\ JudgeIdle /\ RunIdle /\ TestsIdle /\ GoldenInit

SpecGolden == InitGolden /\ [][GoldenNext]_vars

SpecTests == InitTests /\ [][TestsNext]_vars

(***************************************************************************)
(* RateLimiter: claims                                                     *)
(***************************************************************************)
StartedOps == [i \in 1..Len(starts) |-> starts[i][1]]
StartTime(i) == starts[i][2]
Started(o) == \E i \in 1..Len(starts) : starts[i][1] = o
Enqueued(o) == \E i \in 1..Len(submitted) : submitted[i] = o

\* C4 as stated: with requestsPerSecond > 0 the start times of two operations
\* started one after the other differ by at least 1000/requestsPerSecond ms.
C4_StartsAtLeastIntervalApart ==
    requestsPerSecond > 0 =>
        \A i \in 1..(Len(starts) - 1) :
            (StartTime(i + 1) - StartTime(i)) * requestsPerSecond >= 1000

\* C4, what the limiter does keep: with requestsPerSecond > 0 the start times
\* of two operations started one after the other differ by at least the whole
\* milliseconds of 1000/requestsPerSecond, which is the interval itself when
\* requestsPerSecond divides 1000.
C4_StartsAtLeastWholeMsApart ==
    requestsPerSecond > 0 =>
        \A i \in 1..(Len(starts) - 1) :
            /\ StartTime(i + 1) - StartTime(i) >= 1000 \div requestsPerSecond
            /\ (1000 % requestsPerSecond = 0 =>
                  (StartTime(i + 1) - StartTime(i)) * requestsPerSecond >= 1000)

\* C5: with requestsPerSecond > 0 and every operation settling, every enqueued
\* operation is eventually started, exactly once, and the operations start in
\* the order they were enqueued.
C5_AllStartInSubmissionOrder ==
    /\ [](requestsPerSecond > 0 =>
            /\ Len(starts) <= Len(submitted)
            /\ StartedOps = SubSeq(submitted, 1, Len(starts)))
    /\ \A o \in Ops : (requestsPerSecond > 0 /\ Enqueued(o)) ~> Started(o)

C5_Witness ==
    /\ requestsPerSecond > 0
    /\ Len(starts) = MaxOps
    /\ StartTime(MaxOps) > StartTime(1)
    /\ \E o \in Ops : opState[o] = "rejected"

\* A processQueue invocation is suspended and will go on (its await does not
\* throw).
LoopAlive ==
    \E i \in 1..Len(loops) : loops[i].outcome # "rejected"

\* C6: a rejection reaches the promise of the enqueue call of the operation that
\* rejected and no other promise, and the drain loop goes on: every operation
\* still queued is run.
C6_RejectionReachesOwnCallerOnly ==
    /\ [](\A p \in Ops :
            /\ promise[p].state \in {"resolved", "rejected"} =>
                  promise[p].from = p /\ promise[p].state = opState[p]
            /\ opState[p] = "rejected" => promise[p].state = "rejected")
    /\ []((requestsPerSecond > 0 /\ queue # <<>>) => LoopAlive)
    /\ \A o \in Ops :
          (requestsPerSecond > 0 /\ opState[o] = "rejected" /\ queue # <<>>)
              ~> (queue = <<>>)

C6_Witness ==
    /\ requestsPerSecond > 0
    /\ opState[1] = "rejected"
    /\ promise[1].state = "rejected"
    /\ promise[2].state = "resolved"
    /\ Started(3)

\* C7: with requestsPerSecond <= 0, enqueue invokes the operation in the same
\* step, at the time of the call, and leaves the queue, the processing flag and
\* lastRequestTime as they were.
C7_BypassRunsAtOnce ==
    [][(requestsPerSecond <= 0 /\ submitted' # submitted) =>
          /\ starts' = Append(starts, <<submitted'[Len(submitted')], now>>)
          /\ opState'[submitted'[Len(submitted')]] = "running"
          /\ UNCHANGED <<queue, processing, lastRequestTime, loops, now>>]_vars

C7_Witness ==
    /\ requestsPerSecond = 0
    /\ Len(starts) = MaxOps
    /\ queue = <<>>
    /\ lastRequestTime = 0
    /\ ~processing

(***************************************************************************)
(* BatchProcessor: claims                                                  *)
(***************************************************************************)
\* C8: for N items and any batchSize and concurrency of at least 1, when every
\* processor call has resolved and processBatches returns, the result holds
\* exactly N values and result i is the processor's result for item i.
C8_ResultsInInputOrder ==
    bpc = "done" =>
        /\ Len(results) = numItems
        /\ \A i \in 1..numItems : results[i] = i
        /\ \A i \in 1..numItems : opState[i] = "resolved"

\* three items in one chunk that completed in the reverse of the input order
C8_Witness ==
    /\ bpc = "done"
    /\ numItems = 3
    /\ concurrency > numItems
    /\ SubSeq(settles, 1, 3) = <<3, 2, 1>>
    /\ results = <<1, 2, 3>>

\* The place of item i in the order of chunks: its batch, then its chunk in it.
BatchOf(i) == (i - 1) \div batchSize
ChunkInBatchOf(i) == ((i - 1) % batchSize) \div concurrency
EarlierChunk(i, j) ==
    \/ BatchOf(i) < BatchOf(j)
    \/ BatchOf(i) = BatchOf(j) /\ ChunkInBatchOf(i) < ChunkInBatchOf(j)

\* C9: no processor call for an item of a later chunk or batch has started
\* while a processor call of an earlier chunk has not settled.
C9_ChunksRunOneAfterAnother ==
    \A i, j \in 1..numItems :
        (EarlierChunk(i, j) /\ opState[j] # "idle") =>
            opState[i] \in {"resolved", "rejected"}

C9_Witness ==
    /\ numItems = 3
    /\ batchSize = 2
    /\ concurrency = 1
    /\ opState[3] = "running"
    /\ opState[1] = "resolved"
    /\ opState[2] = "resolved"

(***************************************************************************)
(* runLatencyTests: claims                                                 *)
(***************************************************************************)
QuestionsInFlight == Cardinality({o \in Ops : opState[o] = "running"})

RECURSIVE SumRequests(_, _)
SumRequests(runs, n) ==
    IF n = 0 THEN 0 ELSE RequestsOf(runs[n]) + SumRequests(runs, n - 1)

RequestsOfQuestion(o) ==
    IF opState[o] = "running" /\ pq[o].pc = "runs"
    THEN SumRequests(pq[o].runs, numRuns)
    ELSE 0

RECURSIVE SumQuestions(_)
SumQuestions(n) ==
    IF n = 0 THEN 0 ELSE RequestsOfQuestion(n) + SumQuestions(n - 1)

OutboundInFlight == SumQuestions(MaxOps)

\* C10 as stated: at every moment of a suite run the number of outbound
\* requests in flight is at most the concurrency limit.
C10_InFlightRequestsAtMostC ==
    OutboundInFlight <= concurrency

\* C10 as amended: at every moment of a suite run at most C calls of
\* processQuestion are in flight, and each keeps up to NUM_RUNS runs with up to
\* two requests each in flight, so the outbound requests in flight number at
\* most 2 * C * NUM_RUNS.
C10_InFlightQuestionsAtMostC ==
    /\ QuestionsInFlight <= concurrency
    /\ \A o \in Ops : RequestsOfQuestion(o) <= 2 * numRuns
    /\ OutboundInFlight <= 2 * concurrency * numRuns

C10_Witness ==
    /\ concurrency = 2
    /\ numRuns = 2
    /\ QuestionsInFlight = 2
    /\ OutboundInFlight = 8
\* The QA requests started within one second from the start of the i-th call of
\* processQuestion: every call started in that second sends the NUM_RUNS
\* requests of its first batch of runs as it starts.
QARequestsWithinSecondOf(i) ==
    numRuns * Cardinality({j \in 1..Len(starts) :
                              /\ StartTime(j) >= StartTime(i)
                              /\ StartTime(j) < StartTime(i) + MsPerSecond})

\* C11 as stated: with a rate limit R > 0 no more than R outbound requests are
\* started in any one-second window of a suite run.
C11_AtMostRRequestsPerSecond ==
    requestsPerSecond > 0 =>
        \A i \in 1..Len(starts) : QARequestsWithinSecondOf(i) <= requestsPerSecond

\* C12 as stated, for the batches of the BatchProcessor: with a delay
\* configured, the step in which the results of a batch other than the last are
\* pushed does not start the next batch, a wait lying between the two.
C12_WaitAfterEveryBatch ==
    [][(batchDelay > 0 /\ results' # results /\ batchIdx < Len(Batches)) =>
          batchIdx' = batchIdx]_vars

\* C12 as amended: the configured delay separates the batches of runs of one
\* question against one environment. With a delay > 0 a wait of that many
\* seconds lies after each batch of runs but the last and before the next one
\* starts; there is no wait after the last batch of runs, none with a delay of
\* 0, and none between two batches of questions of the BatchProcessor.
C12_RunBatchesSeparatedByDelay ==
    /\ [](\A o \in Ops :
            /\ pq[o].pc = "delay" =>
                  /\ batchDelay > 0
                  /\ pq[o].batch < numBatches - 1
                  /\ Len(pq[o].waits) = pq[o].batch
            /\ pq[o].pc = "runs" =>
                  pq[o].waits = [i \in 1..(IF batchDelay > 0 THEN pq[o].batch ELSE 0)
                                    |-> batchDelay * 1000]
            /\ pq[o].pc = "returned" =>
                  Len(pq[o].waits) = (IF batchDelay > 0 THEN numBatches - 1 ELSE 0))
    /\ [][(results' # results /\ batchIdx < Len(Batches)) =>
              (batchIdx' = batchIdx + 1 /\ now' = now)]_vars

C12_Witness ==
    /\ batchDelay = 1
    /\ numBatches = 2
    /\ batchIdx = 2
    /\ pq[1].pc = "returned"
    /\ pq[1].waits = <<1000>>
    /\ pq[2].pc = "delay"

(***************************************************************************)
(* Startup: claims                                                         *)
(***************************************************************************)
\* C13 as stated: whenever a requested environment lacks a required variable
\* or its system prompt file, the load of the module ends with the one error
\* that lists every affected environment and every missing item of each,
\* whichever items are missing and whether or not an environment has a version.
C13_OneConsolidatedError ==
    (spc \in {"ready", "threw"} /\ argvEnv # <<>> /\ AllMissingVars(argvEnv) # {}) =>
        startupError = [kind |-> "Missing required configuration",
                        missing |-> AllMissingVars(argvEnv)]

\* C13, what the startup does keep: when it gets as far as
\* validateAllEnvironments, which it does when no call of getEnvironmentConfig
\* throws, a missing item ends it with the one error that lists them all.
C13_ConsolidatedOnceResolved ==
    (spc \in {"ready", "threw"} /\ argvEnv # <<>>
        /\ startupError.kind \in {"none", "Missing required configuration"}) =>
            /\ startupError.missing = AllMissingVars(argvEnv)
            /\ (spc = "ready" <=> AllMissingVars(argvEnv) = {})

\* The configured text with -{version} appended to the first label of its host
Suffixed(text, version) == [text EXCEPT !.host = SuffixFirst(text.host, version)]

\* C14 as stated: for an environment with a version the resolved DDN_URL is the
\* configured one with -{version} appended to the first label of the host and
\* nothing else changed; with no version it is the configured one.
C14_VersionSuffixesFirstLabelOnly ==
    \A k \in 1..Len(envConfigs) :
        envConfigs[k].config.DDN_URL =
            IF argvEnv[k].version # NoVersion
            THEN Suffixed(Configs(argvEnv[k].baseEnv).DDN_URL, argvEnv[k].version)
            ELSE Configs(argvEnv[k].baseEnv).DDN_URL

\* C14, what getEnvironmentConfig does keep: when the host with the suffix is a
\* valid host, the resolved DDN_URL is the parsed and written out URL (host in
\* lower case, "/" for an empty path) with the suffix on the first label; when
\* it is not, the DDN_URL is resolved without the version.
C14_SuffixedWhenHostStaysValid ==
    \A k \in 1..Len(envConfigs) :
        LET configured == Configs(argvEnv[k].baseEnv).DDN_URL
            wanted == Suffixed(configured, argvEnv[k].version)
        IN argvEnv[k].version # NoVersion =>
              envConfigs[k].config.DDN_URL =
                  IF ValidHost(wanted.host)
                  THEN UrlToString(ParseUrl(wanted))
                  ELSE UrlToString(ParseUrl(configured))

\* A variable validateAllEnvironments requires of this environment is not set
CredentialAbsent(baseEnv) == \E v \in RequiredVars(baseEnv) : v \notin procEnv

\* C15 as stated: getEnvironmentConfig fails when the name is none of dev,
\* staging and production, when a required credential of that name is absent,
\* and when a version is given and the DDN_URL cannot be parsed.
C15_FailsOnEveryConfigurationFault ==
    \A k \in 1..Len(requested) :
        LET e == requested[k]
        IN (\/ e.baseEnv \notin validEnvs
            \/ CredentialAbsent(e.baseEnv)
            \/ e.version # NoVersion /\ ~CanParse(Configs(e.baseEnv).DDN_URL)) =>
               /\ GetEnvironmentConfig(CoerceEnv(e)).error # "none"
               /\ (e.version = NoVersion =>
                     GetEnvironmentConfigShared(e.baseEnv).error # "none")

\* C15, what getEnvironmentConfig does keep: it fails exactly when the name is
\* no environment, or a version is given and the DDN_URL of the environment is
\* not set or cannot be parsed.
C15_FailsExactlyWhen ==
    \A k \in 1..Len(requested) :
        LET e == requested[k]
        IN GetEnvironmentConfig(CoerceEnv(e)).error # "none" <=>
              \/ e.baseEnv \notin validEnvs
              \/ /\ e.version # NoVersion
                 /\ \/ Configs(e.baseEnv).DDN_URL = Undefined
                    \/ ~CanParse(Configs(e.baseEnv).DDN_URL)

\* getEnvironmentConfig has returned a configuration with no API key in it, for
\* an environment without a version, and one for an environment with a version
C15_Witness ==
    /\ spc = "validate"
    /\ Len(envConfigs) = 2
    /\ argvEnv[1].version = NoVersion
    /\ ~envConfigs[1].config.PROMPTQL_API_KEY
    /\ argvEnv[2].version # NoVersion

(***************************************************************************)
(* callPromptQL, runQuestionTests: claims                                  *)
(***************************************************************************)
\* The request to the QA backend failed, or its response brought no trace id
QANotPursued ==
    /\ run.qa.kind # "none"
    /\ (run.qa.kind = "error" \/ TraceIdMissing(TraceIdOf(run.qa.traceparent)))

C19_AccuracyIffBothJudges ==
    (run.pc = "returned" /\ run.traceEnd = "found") =>
        /\ run.result[1].accuracy # Null <=>
              (run.fuzzy \in {"pass", "fail"} /\ run.data \in {"pass", "fail"})
        /\ run.result[1].accuracy # Null =>
              run.result[1].accuracy =
                  Some([fuzzy_match |-> run.fuzzy, data_accuracy |-> run.data])
        /\ [run.result[1] EXCEPT !.accuracy = Null] =
              MeasuredResult(run.traceId, run.spans, run.qa.data, Null)
        /\ run.result[1].success
        /\ run.result[1].duration = Some(SpanSeconds(run.spans.root))
        /\ run.record # Null
        /\ run.record[1].accuracy = run.result[1].accuracy
        /\ run.record[1].duration = SpanSeconds(run.spans.root)

\* one judge returned a result, the other null
C19_Witness ==
    /\ run.pc = "returned"
    /\ run.fuzzy = "pass"
    /\ run.data = "null"
    /\ run.result[1].accuracy = Null
    /\ run.result[1].duration = Some(2)
    /\ run.result[1].spanDurations.pure_code_execution = Some(1)
    /\ run.record # Null

\* C20 as stated: when getTrace ends without the POST:/query span, the run is
\* recorded, as a run with success=true and duration=null that keeps its trace
\* id.
C20_ExhaustedRunIsRecorded ==
    (run.pc = "returned" /\ run.traceEnd = "exhausted") =>
        /\ run.result[1].success
        /\ run.result[1].duration = Null
        /\ run.record # Null
        /\ run.record[1].trace_id = run.traceId

\* C20, what the code does keep: callPromptQL returns success=true,
\* duration=null and the trace id, and runQuestionTests returns null for it.
C20_ExhaustedRunIsDropped ==
    (run.pc = "returned" /\ run.traceEnd \in {"exhausted", "transport"}) =>
        /\ run.result = Some(FailureResult(TRUE, run.traceId, run.qa.data))
        /\ run.traceId # Null
        /\ run.record = Null

(***************************************************************************)
(* callPatronusJudge: claims                                               *)
(***************************************************************************)
\* C17: callPatronusJudge makes at most 3 attempts; it waits 1000 ms between
\* two consecutive attempts and not after the last one; an attempt that fails
\* in any way (the request rejected, a status other than 200, an error_message
\* in a body of status 200) is followed by another attempt while fewer than 3
\* were made; it returns null exactly when 3 attempts have failed, and it
\* never throws to its caller.
C17_ThreeAttemptsThenNull ==
    /\ jAttempt \in 1..3
    /\ Len(jLog) \in {jAttempt - 1, jAttempt}
    /\ Len(jWaits) = jAttempt - 1
    /\ \A i \in 1..Len(jWaits) : jWaits[i] = 1000
    /\ \A i \in 1..Len(jLog) : i < Len(jLog) => AttemptFails(jLog[i])
    /\ jpc = "sleep" =>
          /\ jAttempt < 3
          /\ Len(jLog) = jAttempt
          /\ AttemptFails(jLog[jAttempt])
    /\ jpc = "request" => Len(jLog) = jAttempt - 1
    /\ jpc = "returned" =>
          /\ Len(jLog) = jAttempt
          /\ jResult.kind \in {"null", "value"}
          /\ jResult.kind = "null" <=>
                (jAttempt = 3 /\ \A i \in 1..3 : AttemptFails(jLog[i]))
          /\ jResult.kind = "value" <=> ~AttemptFails(jLog[jAttempt])
    /\ jResult.kind # "threw"

\* three attempts failed, each in another way
C17_Witness ==
    /\ jpc = "returned"
    /\ jResult = JudgeNull
    /\ Len(jLog) = 3
    /\ jLog[1].kind = "reject"
    /\ jLog[2].kind = "status"
    /\ jLog[3].kind = "ok" /\ jLog[3].body.error_message
    /\ jWaits = <<1000, 1000>>

\* attempt 1 failed and attempt 2 did not
SecondAttemptSucceeded ==
    /\ Len(jLog) = 2
    /\ AttemptFails(jLog[1])
    /\ ~AttemptFails(jLog[2])

\* C18: when attempt 1 fails and attempt 2 succeeds, callPatronusJudge returns
\* what it reads in the response of attempt 2 and makes no third attempt; the
\* score is score_raw when present, else score, else 0; passed is pass when
\* present, else passed, else false.
C18_SecondAttemptResult ==
    SecondAttemptSucceeded =>
        LET o == IF jLog[2].body.evaluation_result.present
                 THEN jLog[2].body.evaluation_result
                 ELSE jLog[2].body.entry
        IN  /\ jpc = "returned"
            /\ jAttempt = 2
            /\ jWaits = <<1000>>
            /\ jResult.kind = "value"
            /\ jResult.score =
                  (IF o.score_raw # Absent THEN o.score_raw
                   ELSE IF o.score # Absent THEN o.score ELSE 0)
            /\ jResult.passed =
                  (IF o.pass # "undefined" THEN o.pass
                   ELSE IF o.passed # "undefined" THEN o.passed ELSE "false")

\* the response of attempt 2 has both score_raw and score, both pass and passed
C18_Witness ==
    /\ SecondAttemptSucceeded
    /\ jLog[1].kind = "ok"
    /\ jLog[2].body.evaluation_result.score_raw = 9
    /\ jLog[2].body.evaluation_result.score = 5
    /\ jLog[2].body.evaluation_result.pass = "true"
    /\ jLog[2].body.evaluation_result.passed = "false"
    /\ jResult.score = 9
    /\ jResult.passed = "true"

(***************************************************************************)
(* getTrace: further claims                                                *)
(***************************************************************************)
\* The response of attempt k had no POST:/query span and was no failure
Rootless(k) == polls[k] \in {"noroot", "empty", "nolist"}

\* C27: an attempt whose response has spans but no POST:/query span is handled
\* as one whose response has no spans: while attempt < 10, one sleep of
\* min(2^(attempt-1) * 1000, 30000) ms and then attempt + 1; at attempt 10
\* getTrace throws; no attempt is followed by two sleeps.
C27_NoRootHandledAsNoSpans ==
    /\ [](/\ Len(sleeps) = attempt - 1
          /\ \A i \in 1..Len(sleeps) : sleeps[i] = Min((2 ^ (i - 1)) * 1000, 30000)
          /\ (Len(polls) = attempt /\ Rootless(attempt)) =>
                IF attempt < 10
                THEN /\ tpc = "sleep"
                     /\ pending = Min((2 ^ (attempt - 1)) * 1000, 30000)
                ELSE /\ tpc = "threw"
                     /\ terr = "exhausted"
                     /\ pending = 0)
    /\ [][tpc = "sleep" =>
            /\ attempt' = attempt + 1
            /\ tpc' = "query"
            /\ sleeps' = Append(sleeps, pending)]_vars

\* a response with spans but no root span, one without spans, and again
C27_Witness ==
    /\ polls = <<"noroot", "empty", "noroot">>
    /\ sleeps = <<1000, 2000>>
    /\ tpc = "sleep"
    /\ pending = 4000

\* The text of the number of attempts made when polling is exhausted
AttemptCountText == "10"

Carries(message, piece) == \E i \in 1..Len(message) : message[i] = piece

\* C28 as stated: the error getTrace throws when polling is exhausted carries
\* the trace id and the number of attempts made.
C28_ErrorCarriesIdAndAttempts ==
    terr = "exhausted" =>
        /\ Carries(thrown, tTraceId)
        /\ Carries(thrown, AttemptCountText)

\* C28 as amended: the error getTrace throws when polling is exhausted is a
\* plain Error whose message is the fixed text "No traces found with
\* POST:/query span after maximum retries for trace ID: " followed by the
\* trace id; the number of attempts made is not in it.
C28_ErrorCarriesIdOnly ==
    terr = "exhausted" =>
        /\ Len(polls) = 10
        /\ Len(thrown) = 2
        /\ thrown[2] = tTraceId
        /\ thrown[1] \notin TraceIds \cup {AttemptCountText}
        /\ ~Carries(thrown, AttemptCountText)

C28_Witness ==
    /\ terr = "exhausted"
    /\ tTraceId = "00f067aa"
    /\ Carries(thrown, "00f067aa")

(***************************************************************************)
(* RateLimiter: further claims                                             *)
(***************************************************************************)
\* C29: with requestsPerSecond > 0 at most one drain loop (a chain of
\* processQueue calls) is active at any time; processing is true exactly while
\* one is; a loop is started only by a call of enqueue that finds processing
\* false; and processing is never false while the queue is not empty.
C29_OneDrainLoop ==
    /\ [](requestsPerSecond > 0 =>
            /\ Len(loops) <= 1
            /\ processing <=> loops # <<>>
            /\ queue # <<>> => processing)
    /\ [][(requestsPerSecond > 0 /\ loops = <<>> /\ loops' # <<>>) =>
            /\ ~processing
            /\ Len(submitted') > Len(submitted)]_vars

\* two operations wait in the queue while the loop awaits the first
C29_Witness ==
    /\ requestsPerSecond > 0
    /\ processing
    /\ Len(loops) = 1
    /\ loops[1].pc = "awaitNext"
    /\ Len(queue) = 2

(***************************************************************************)
(* BatchProcessor: further claims                                          *)
(***************************************************************************)
\* A drain loop of the limiter is waiting for the minimum interval to elapse
IntervalPending == \E i \in 1..Len(loops) : loops[i].pc = "timer"

\* C30 as stated: every item of a chunk is handed to the limiter before a
\* result is awaited, the processor calls start in input order, and the calls
\* of a chunk of two or more items are in flight together: a call of the chunk
\* that has not started yet is held back by the minimum interval only, never
\* until an earlier call of the chunk has settled.
C30_ChunkCallsInFlightTogether ==
    bpc = "awaitChunk" =>
        LET chunk == Chunks(batchIdx)[chunkIdx]
        IN /\ \A k \in 1..Len(chunk) : promise[chunk[k]].state # "none"
           /\ \A k, j \in 1..Len(chunk) :
                 (k < j /\ opState[chunk[j]] # "idle") => opState[chunk[k]] # "idle"
           /\ \A k, j \in 1..Len(chunk) :
                 (k < j /\ opState[chunk[k]] = "running" /\ opState[chunk[j]] = "idle")
                     => IntervalPending

(***************************************************************************)
(* callPromptQL: further claims                                            *)
(***************************************************************************)
\* The duration of a span in seconds, 0 for a span that is not there
SecondsOrZero(duration) == IF duration = Absent THEN 0 ELSE duration \div 1000000000

\* C23: pure_code_execution of a run is total - (sql, or 0 when there is no
\* SQL span) - (llm, or 0 when there is no LLM span), the durations being
\* those of the POST:/query, sql_engine_execute_sql and call_llm_streaming
\* spans; it is not clamped, and is negative whenever sql + llm exceeds total.
C23_PureCodeIsTotalMinusSqlMinusLlm ==
    (run.pc = "returned" /\ run.traceEnd = "found") =>
        LET total == run.spans.root \div 1000000000
            pure == total - SecondsOrZero(run.spans.sql) - SecondsOrZero(run.spans.llm)
        IN /\ run.result[1].duration = Some(total)
           /\ run.result[1].spanDurations.pure_code_execution = Some(pure)
           /\ run.record[1].span_durations.pure_code_execution = Some(pure)
           /\ run.result[1].spanDurations.sql_engine_execute_sql = Null
                 <=> run.spans.sql = Absent
           /\ run.result[1].spanDurations.call_llm_streaming = Null
                 <=> run.spans.llm = Absent
           /\ (SecondsOrZero(run.spans.sql) + SecondsOrZero(run.spans.llm) > total)
                 => run.result[1].spanDurations.pure_code_execution[1] < 0

\* total 1 s, sql 2 s, llm 1 s: pure_code_execution is -2
C23_Witness ==
    /\ run.pc = "returned"
    /\ run.traceEnd = "found"
    /\ run.spans.root = 1000000000
    /\ run.spans.sql = 2000000000
    /\ run.spans.llm = 1000000000
    /\ run.record[1].span_durations.pure_code_execution = Some(0 - 2)

\* One of the three Patronus settings is missing from the configuration
PatronusSettingMissing ==
    \/ ~envConfigs[1].config.PATRONUS_BASE_URL
    \/ ~envConfigs[1].config.PATRONUS_API_KEY
    \/ ~envConfigs[1].config.PATRONUS_PROJECT_ID

\* C26: when --skip-accuracy is set or one of the three Patronus settings is
\* missing, no judge call is made and the accuracy of the run is null;
\* otherwise both judges are called for every run whose latency was measured.
C26_JudgingSkippedOrMade ==
    /\ (skipAccuracy \/ PatronusSettingMissing) =>
          /\ run.judgeCalls = 0
          /\ run.fuzzy = "idle" /\ run.data = "idle"
          /\ run.result # Null => run.result[1].accuracy = Null
          /\ run.record # Null => run.record[1].accuracy = Null
    /\ (~skipAccuracy /\ ~PatronusSettingMissing /\ run.traceEnd = "found") =>
          /\ run.pc \in {"judges", "returned"}
          /\ run.judgeCalls = 2
          /\ run.fuzzy # "idle" /\ run.data # "idle"

\* the latency was measured and the project id is missing
C26_Witness ==
    /\ run.pc = "returned"
    /\ run.traceEnd = "found"
    /\ ~skipAccuracy
    /\ envConfigs[1].config.PATRONUS_BASE_URL
    /\ envConfigs[1].config.PATRONUS_API_KEY
    /\ ~envConfigs[1].config.PATRONUS_PROJECT_ID
    /\ run.judgeCalls = 0
    /\ run.record # Null

(***************************************************************************)
(* runLatencyTests: claims about the results object                        *)
(***************************************************************************)
\* The prompt file the environment of call c calls for: the file of its build
\* when the environment has a version and that file can be read, the file of
\* its base environment otherwise
PromptCalledFor(c) ==
    LET name == envConfigs[c.env].name
    IN IF Len(name) > 1 /\ name \in readable THEN name ELSE <<name[1]>>

C21_EveryAttemptedRunListed ==
    tests.pc = "written" =>
        \A k \in Keys :
            tests.environments[k] # Null =>
                Len(tests.environments[k][1].runs) = numRuns * numBatches

\* C22: once validation has passed the suite never ends before the step that
\* writes the output files: no failure inside a run, a system prompt that
\* cannot be read included, ends the process.
C22_SuiteNeverExitsUnwritten == tests.pc # "exited"

\* C24: every key (environment, question) of the results object is written at
\* most once during a suite run.
C24_KeyWrittenAtMostOnce == \A k \in Keys : tests.keyWrites[k] <= 1

\* The runs of call q that have not settled
PendingRuns(c) == {j \in 1..Len(c.runs) : c.runs[j] = "pending"}

SumWrites(T) ==
    LET Sum[S \in SUBSET Keys] ==
            IF S = {} THEN 0
            ELSE LET k == CHOOSE x \in S : TRUE
                 IN T.keyWrites[k] + Sum[S \ {k}]
    IN Sum[Keys]

\* C31: within processQuestion the environments are handled one after another:
\* while runs of a question are out for environment k the call has written the
\* keys of the k - 1 environments before it and no other, it moves to the next
\* environment only in the step in which the last run of the last batch of runs
\* settles and its key is written, and a step writes at most one key.
C31_EnvironmentsOneAfterAnother ==
    /\ [](\A q \in 1..Len(tests.calls) :
            /\ tests.calls[q].pc \in {"runs", "rejected"} =>
                  tests.calls[q].written = tests.calls[q].env - 1
            /\ tests.calls[q].pc = "returned" =>
                  tests.calls[q].written = Len(envConfigs))
    /\ [][/\ SumWrites(tests') - SumWrites(tests) <= 1
          /\ \A q \in 1..Len(tests.calls) :
               tests'.calls[q].env # tests.calls[q].env =>
                  /\ tests'.calls[q].env = tests.calls[q].env + 1
                  /\ tests.calls[q].batch = numBatches - 1
                  /\ Cardinality(PendingRuns(tests.calls[q])) = 1
                  /\ tests'.calls[q].written = tests.calls[q].written + 1
                  /\ tests'.keyWrites[KeyOf(tests.calls[q].env, q)] =
                        tests.keyWrites[KeyOf(tests.calls[q].env, q)] + 1]_vars

\* runs are out for the second environment and the key of the first is written
C31_Witness ==
    \E q \in 1..Len(tests.calls) :
        /\ tests.calls[q].pc = "runs"
        /\ tests.calls[q].env = 2
        /\ tests.calls[q].written = 1
        /\ tests.keyWrites[KeyOf(1, q)] >= 1
        /\ PendingRuns(tests.calls[q]) # {}

\* C33: for every pair the recorded successful_runs + failed_runs is the number
\* of runs attempted, runs * num-batches, with failed_runs >= 0, the runs listed
\* have distinct run numbers in 1..runs * num-batches, and the metadata totals
\* count every run attempted.
C33_CountsAddUp ==
    /\ \A k \in Keys :
          tests.environments[k] # Null =>
              LET entry == tests.environments[k][1]
              IN /\ entry.failed_runs >= 0
                 /\ entry.successful_runs + entry.failed_runs =
                       numRuns * numBatches
                 /\ \A i \in 1..Len(entry.runs) :
                       entry.runs[i][1] \in 1..(numRuns * numBatches)
                 /\ \A i, j \in 1..Len(entry.runs) :
                       i # j => entry.runs[i] # entry.runs[j]
    /\ tests.metadata.successful_runs + tests.metadata.failed_runs =
          SumWrites(tests) * numRuns * numBatches

(***************************************************************************)
(* RateLimiter: operations never overlap                                   *)
(***************************************************************************)
\* The operations that have started and not settled
Executing == {o \in Ops : opState[o] = "running"}

\* C32: with requestsPerSecond > 0 at most one enqueued operation is executing
\* at any time, and an operation starts only in a state in which none is
\* executing: the drain loop starts the next one only after the one before has
\* settled.
C32_OperationsNeverOverlap ==
    /\ [](requestsPerSecond > 0 => Cardinality(Executing) <= 1)
    /\ [][(requestsPerSecond > 0 /\ Len(starts') > Len(starts)) =>
             /\ Executing = {}
             /\ Len(starts') = Len(starts) + 1]_vars

\* an operation executes and another waits in the queue although the minimum
\* interval since the last start has elapsed
C32_Witness ==
    /\ requestsPerSecond > 0
    /\ Cardinality(Executing) = 1
    /\ queue # <<>>
    /\ ~MustWait(now - lastRequestTime, requestsPerSecond)

(***************************************************************************)
(* BatchProcessor: a processor call rejects                                *)
(***************************************************************************)
\* The items of the chunk processBatch awaits, or awaited when it rejected
AwaitedChunk == {Chunks(batchIdx)[chunkIdx][k] : k \in 1..Len(Chunks(batchIdx)[chunkIdx])}

\* Operation o is still on its way through the limiter: it runs, or it waits
\* in the queue of a limiter whose drain loop is alive
OnItsWay(o) ==
    \/ opState[o] = "running"
    \/ /\ opState[o] = "idle"
       /\ \E i \in 1..Len(queue) : queue[i].fn = o
       /\ processing
       /\ LoopAlive

\* C37: when a processor call rejects, processBatches rejects with it and hands
\* no later chunk or batch to the limiter: a rejected call is always one of
\* the chunk awaited last, and after the rejection nothing more is submitted or
\* returned; the other operations of that chunk are not cancelled: each has
\* settled, runs, or waits in the queue of a drain loop that goes on.
C37_RejectionStopsBatchesOnly ==
    /\ [](\A o \in Ops :
            promise[o].state = "rejected" =>
                /\ bpc \in {"awaitChunk", "rejected"}
                /\ o \in AwaitedChunk)
    /\ [](bpc = "rejected" =>
            /\ \E o \in AwaitedChunk : promise[o].state = "rejected"
            /\ \A i \in 1..Len(submitted) :
                  \/ BatchOf(submitted[i]) < batchIdx - 1
                  \/ (BatchOf(submitted[i]) = batchIdx - 1
                      /\ ChunkInBatchOf(submitted[i]) <= chunkIdx - 1)
            /\ \A o \in AwaitedChunk :
                  opState[o] \in {"resolved", "rejected"} \/ OnItsWay(o))
    /\ [][bpc = "rejected" =>
             /\ bpc' = "rejected"
             /\ submitted' = submitted
             /\ results' = results]_vars

\* processBatches has rejected and a later operation of the same chunk, held
\* back by the limiter until then, has run to completion
C37_Witness ==
    /\ bpc = "rejected"
    /\ requestsPerSecond > 0
    /\ \A o \in AwaitedChunk : opState[o] \in {"resolved", "rejected"}
    /\ \E i, j \in 1..Len(settles) :
          /\ i < j
          /\ settles[i] \in AwaitedChunk /\ opState[settles[i]] = "rejected"
          /\ settles[j] \in AwaitedChunk /\ opState[settles[j]] = "resolved"

(***************************************************************************)
(* callPromptQL: the order of the calls of a run                           *)
(***************************************************************************)
\* C34: within a run the calls come in the order QA request, trace polling,
\* judging: getTrace is called only once the QA request has brought a trace id,
\* the two judge calls start together and only in the step in which getTrace
\* returns spans with the POST:/query span, and a run whose QA request failed
\* or whose getTrace call threw makes no judge call.
C34_QAThenTraceThenJudges ==
    /\ [](/\ run.traceCalls > 0 =>
                (run.qa.kind = "ok" /\ ~TraceIdMissing(run.traceId))
          /\ run.judgeCalls > 0 =>
                /\ run.traceCalls = 1
                /\ run.traceEnd = "found"
                /\ run.spans.root # Absent
          /\ (QANotPursued \/ run.traceEnd \in {"exhausted", "transport"}) =>
                /\ run.judgeCalls = 0
                /\ run.fuzzy = "idle" /\ run.data = "idle")
    /\ [][/\ run'.traceCalls # run.traceCalls =>
                (run.pc = "qa" /\ run.traceCalls = 0 /\ run'.traceCalls = 1)
          /\ run'.judgeCalls # run.judgeCalls =>
                /\ run.pc = "trace" /\ run.traceEnd = "none"
                /\ run'.traceEnd = "found"
                /\ run.judgeCalls = 0 /\ run'.judgeCalls = 2]_vars

\* the judge calls are out, after the one QA request and the one getTrace call
C34_Witness ==
    /\ run.pc = "judges"
    /\ run.qaRequests = 1
    /\ run.traceCalls = 1
    /\ run.traceEnd = "found"
    /\ run.judgeCalls = 2
    /\ run.fuzzy = "pending" /\ run.data = "pending"

\* C35, the polling: a query that fails (the request rejects, or the response
\* has no data object) ends getTrace at once, with no sleep after it and no
\* further query.
C35_FailedQueryStopsPolling ==
    (Len(polls) > 0 /\ polls[Len(polls)] = "error") =>
        /\ tpc = "threw"
        /\ terr = "transport"
        /\ attempt = Len(polls)
        /\ Len(sleeps) = Len(polls) - 1
        /\ pending = 0

\* C35 as stated, the run: when the request to the tracing backend fails the
\* run is recorded, with success=true and duration=null.
C35_FailedQueryRunIsRecorded ==
    (run.pc = "returned" /\ run.traceEnd = "transport") =>
        /\ run.result[1].success
        /\ run.result[1].duration = Null
        /\ run.record # Null

(***************************************************************************)
(* callPatronusJudge: a response without an evaluation result              *)
(***************************************************************************)
\* The response has status 200 and no results[0]: results is missing or empty
NoEvaluationResult(r) ==
    /\ r.kind = "ok"
    /\ ~r.body.error_message
    /\ ~r.body.entry.present
    /\ ~r.body.evaluation_result.present

\* C36: a response with status 200 and no evaluation result is a failed
\* attempt: callPatronusJudge never returns an evaluation for it, it goes on
\* to the next attempt or returns null.
C36_NoResultIsAFailedAttempt ==
    (jLog # <<>> /\ NoEvaluationResult(jLog[Len(jLog)])) =>
        /\ jResult.kind # "value"
        /\ jpc \in {"sleep", "returned"}
        /\ jpc = "returned" => (jResult = JudgeNull /\ jAttempt = judgeMaxRetries)

(***************************************************************************)
(* update-golden: claims                                                   *)
(***************************************************************************)
\* The user picked one of the responses and confirmed with y or Y
PickedAndConfirmed ==
    /\ golden.selection # Null
    /\ golden.selection[1] \in 1..Len(golden.responses)
    /\ golden.confirm \in {"y", "Y"}

====
